---- MODULE Spec2Model ----
(***************************************************************************)
(* A model of the support/resistance breakout strategy of                  *)
(* src/s_r_strategy.py: one SupportResistanceStrategy instance, its price  *)
(* buffer, its levels, its lock flag and its active trade, and the         *)
(* operations of the class; and of what src/main.py builds on it: the      *)
(* /webhook handler, the registry of instances, the monitoring loop and    *)
(* its start and stop, with place_order of src/kite_utils.py.              *)
(*                                                                         *)
(* Numbers.  Prices are integers (whole price units).  The percentages     *)
(* profit_target and stop_loss are kept in hundredths (0.03 is 3, 0.01 is  *)
(* 1, over Percent = 100), so target_price and stop_price are kept in      *)
(* hundredths of a price unit: entry 100 gives target 10300 (103.00) and   *)
(* stop 9900 (99.00), and "price >= target" is price * Percent >= target.  *)
(* The summary's pnl and pnl_percent are kept in hundredths too, which is  *)
(* what round(x, 2) keeps of them.                                         *)
(*                                                                         *)
(* Python's None is the empty sequence and a present optional value v is   *)
(* the one-element sequence <<v>>.                                         *)
(***************************************************************************)
EXTENDS Integers, Sequences, FiniteSets, TLC

VARIABLES
    lookback_period,    \* self.lookback_period
    profit_target,      \* self.profit_target, in hundredths
    stop_loss,          \* self.stop_loss, in hundredths
    support_level,      \* self.support_level: None or <<price>>
    resistance_level,   \* self.resistance_level: None or <<price>>
    levels_locked,      \* self.levels_locked
    active_trade,       \* self.active_trade
    price_data,         \* self.price_data
    last,               \* the last call on the instance: its name, argument and result
    ingested,           \* every point handed to add_price_data since construction or reset
    lock,               \* self.lock: None, or <<t>> when thread t holds it
    pc,                 \* per thread: where it is in its enter_trade call
    call,               \* per thread: the arguments of its enter_trade call
    ret,                \* per thread: what its enter_trade call returned
    web,                \* the /webhook request being handled (src/main.py)
    orders,             \* the requests /webhook handed to place_order, with their results
    strategy_instances, \* the registry: symbol -> instance
    monitoring_active,  \* the flag of src/main.py
    monitoring_thread,  \* the thread start_monitoring created last, or None
    monitors,           \* per monitoring thread: where its ltp_monitor loop is
    callers             \* per calling thread: where its request or call is

params == <<lookback_period, profit_target, stop_loss>>
svars  == <<support_level, resistance_level, levels_locked, active_trade, price_data>>
tvars  == <<lock, pc, call, ret>>
ivars  == <<lookback_period, profit_target, stop_loss, support_level, resistance_level,
            levels_locked, active_trade, price_data, last, ingested>>
avars  == <<web, orders, strategy_instances, monitoring_active, monitoring_thread,
            monitors, callers>>
vars   == <<lookback_period, profit_target, stop_loss, support_level, resistance_level,
            levels_locked, active_trade, price_data, last, ingested, lock, pc, call, ret,
            web, orders, strategy_instances, monitoring_active, monitoring_thread,
            monitors, callers>>

----------------------------------------------------------------------------
(* Optional values *)

None    == <<>>
Some(x) == <<x>>
Val(o)  == o[1]

\* what a call that raises leaves as its result: Python raises TypeError when a
\* number is ordered against None
TypeError == <<"raise", "TypeError">>

----------------------------------------------------------------------------
(* Program constants *)

Percent              == 100
max_data_points      == 50
DefaultLookback      == 10
DefaultProfitTarget  == 3
DefaultStopLoss      == 1

----------------------------------------------------------------------------
(* Bounds of the model *)

MaxLen     == 5     \* Spec: add_price_data is not called on a longer buffer
MaxLenT    == 3     \* SpecTrade: add_price_data is not called on a longer buffer
MaxIngest  == 53    \* SpecBuf: points ingested since construction or the last reset
NumThreads == 3     \* SpecEnter: threads calling enter_trade concurrently
MaxTail    == 2     \* SpecWebhook: price observations after the first ScenarioLen
MaxLoops   == 2     \* SpecCtl: monitoring threads created, the one of startup included
NumCallers == 2     \* SpecCtl: threads handling start and stop requests
MaxClock   == 2     \* SpecReplay: ticks of the clock while the candles are sent
NumHandlers == 2    \* SpecObs: threads handling price observations concurrently
NumLockers == 2     \* SpecLock: threads calling the methods of one instance

----------------------------------------------------------------------------
(* Arithmetic *)

Min(S) == CHOOSE x \in S : \A y \in S : x <= y
Max(S) == CHOOSE x \in S : \A y \in S : x >= y

\* n / d rounded to the nearest integer, ties to the even one (Python's round)
RoundDivPos(n, d) ==
    LET q == n \div d
        r == n - q * d
    IN  IF 2 * r < d THEN q
        ELSE IF 2 * r > d THEN q + 1
        ELSE IF q % 2 = 0 THEN q ELSE q + 1

RoundDiv(n, d) == IF d < 0 THEN RoundDivPos(-n, -d) ELSE RoundDivPos(n, d)

----------------------------------------------------------------------------
(* The state after __init__ *)

InactiveTrade ==
    [is_active    |-> FALSE,
     direction    |-> None,
     entry_price  |-> None,
     entry_time   |-> None,
     quantity     |-> 0,
     order_id     |-> None,
     target_price |-> None,
     stop_price   |-> None]

NoCall == [op |-> "__init__", arg |-> None, result |-> None, raised |-> FALSE]

Constructed(lookback) ==
    /\ lookback_period = lookback
    /\ profit_target = DefaultProfitTarget
    /\ stop_loss = DefaultStopLoss
    /\ support_level = None
    /\ resistance_level = None
    /\ levels_locked = FALSE
    /\ active_trade = InactiveTrade
    /\ price_data = <<>>
    /\ last = NoCall
    /\ ingested = <<>>

----------------------------------------------------------------------------
(* add_price_data *)

PricePoint(high, low, close, timestamp) ==
    [high |-> high, low |-> low, close |-> close, timestamp |-> timestamp]

KeepLast_first(data) ==
    IF Len(data) > max_data_points
    THEN SubSeq(data, 1, max_data_points)
    ELSE data

\* self.price_data[-self.max_data_points:] when the list is longer than that
KeepLast(data) ==
    IF Len(data) > max_data_points
    THEN SubSeq(data, Len(data) - max_data_points + 1, Len(data))
    ELSE data

WithPoint_oldest(data, price_point) == <<price_point>> \o data

\* line 90: self.price_data.append(price_point)
WithPoint(data, price_point) == Append(data, price_point)

add_price_data(high, low, close, timestamp, now) ==
    LET ts == IF timestamp = None THEN now ELSE Val(timestamp)
        price_point == PricePoint(high, low, close, ts)
    IN  /\ price_data' = KeepLast(WithPoint(price_data, price_point))
        /\ ingested' = Append(ingested, price_point)
        /\ last' = [op |-> "add_price_data", arg |-> None, result |-> None,
                    raised |-> FALSE]
        /\ UNCHANGED <<params, support_level, resistance_level, levels_locked,
                       active_trade>>

----------------------------------------------------------------------------
(* detect_support_resistance *)

\* self.price_data[-self.lookback_period-2:]
RecentData(data, lookback) == SubSeq(data, Len(data) - lookback - 1, Len(data))

IsSwingHigh_ties(recent_data, i) ==
    /\ recent_data[i].high >= recent_data[i - 1].high
    /\ recent_data[i].high > recent_data[i + 1].high

\* line 122
IsSwingHigh(recent_data, i) ==
    /\ recent_data[i].high > recent_data[i - 1].high
    /\ recent_data[i].high > recent_data[i + 1].high

IsSwingLow(recent_data, i) ==
    /\ recent_data[i].low < recent_data[i - 1].low
    /\ recent_data[i].low < recent_data[i + 1].low

\* range(1, len(recent_data) - 1), as indices of a sequence that starts at 1
Interior(recent_data) == 2 .. (Len(recent_data) - 1)

SwingHighs(recent_data) ==
    {recent_data[i].high : i \in {j \in Interior(recent_data) : IsSwingHigh(recent_data, j)}}

SwingLows(recent_data) ==
    {recent_data[i].low : i \in {j \in Interior(recent_data) : IsSwingLow(recent_data, j)}}

\* min(swing_lows) if swing_lows else None
SupportOf(swing_lows) == IF swing_lows # {} THEN Some(Min(swing_lows)) ELSE None

ResistanceOf_min(swing_highs) == IF swing_highs # {} THEN Some(Min(swing_highs)) ELSE None

\* max(swing_highs) if swing_highs else None
ResistanceOf(swing_highs) == IF swing_highs # {} THEN Some(Max(swing_highs)) ELSE None

\* <<support, resistance>>
detect_support_resistance(data, lookback) ==
    IF Len(data) < lookback + 2
    THEN <<None, None>>
    ELSE LET recent_data == RecentData(data, lookback)
         IN  <<SupportOf(SwingLows(recent_data)), ResistanceOf(SwingHighs(recent_data))>>

----------------------------------------------------------------------------
(* update_levels *)

LevelsAccepted_unordered(support, resistance) ==
    /\ support # None
    /\ resistance # None

\* the levels are stored when both are present and not (support >= resistance)
LevelsAccepted(support, resistance) ==
    /\ support # None
    /\ resistance # None
    /\ ~(Val(support) >= Val(resistance))

LevelsFrozen_never(locked) == FALSE

\* the test of lines 144-146: locked levels are not updated
LevelsFrozen(locked) == locked

update_levels ==
    LET detected   == detect_support_resistance(price_data, lookback_period)
        support    == detected[1]
        resistance == detected[2]
        updated    == ~LevelsFrozen(levels_locked) /\ LevelsAccepted(support, resistance)
    IN  /\ support_level' = IF updated THEN support ELSE support_level
        /\ resistance_level' = IF updated THEN resistance ELSE resistance_level
        /\ last' = [op |-> "update_levels", arg |-> None, result |-> updated,
                    raised |-> FALSE]
        /\ UNCHANGED <<params, levels_locked, active_trade, price_data, ingested>>

----------------------------------------------------------------------------
(* check_breakout_signal *)

\* lines 183-192, reached with no test of the levels being set
Breakout(support, resistance, current_price) ==
    IF resistance = None THEN TypeError
    ELSE IF current_price > Val(resistance) THEN Some("long")
    ELSE IF support = None THEN TypeError
    ELSE IF current_price < Val(support) THEN Some("short")
    ELSE None

BreakoutSignal_unguarded(trade, support, resistance, current_price) ==
    IF trade.is_active THEN None
    ELSE Breakout(support, resistance, current_price)

BreakoutSignal_while_active(trade, support, resistance, current_price) ==
    IF support = None \/ resistance = None THEN None
    ELSE Breakout(support, resistance, current_price)

\* lines 173-192
BreakoutSignal(trade, support, resistance, current_price) ==
    IF trade.is_active THEN None
    ELSE IF support = None \/ resistance = None THEN None
    ELSE Breakout(support, resistance, current_price)

check_breakout_signal(current_price) ==
    LET signal == BreakoutSignal(active_trade, support_level, resistance_level,
                                 current_price)
    IN  /\ last' = [op |-> "check_breakout_signal", arg |-> Some(current_price),
                    result |-> signal, raised |-> signal = TypeError]
        /\ UNCHANGED <<params, svars, ingested>>

----------------------------------------------------------------------------
(* enter_trade *)

TargetPrice_mirrored(direction, entry_price, target_pct) ==
    IF direction = "long"
    THEN entry_price * (Percent - target_pct)
    ELSE entry_price * (Percent + target_pct)

\* entry_price * (1 + profit_target) for long, entry_price * (1 - profit_target)
\* otherwise, in hundredths
TargetPrice(direction, entry_price, target_pct) ==
    IF direction = "long"
    THEN entry_price * (Percent + target_pct)
    ELSE entry_price * (Percent - target_pct)

StopPrice_mirrored(direction, entry_price, stop_pct) ==
    IF direction = "long"
    THEN entry_price * (Percent + stop_pct)
    ELSE entry_price * (Percent - stop_pct)

\* entry_price * (1 - stop_loss) for long, entry_price * (1 + stop_loss) otherwise,
\* in hundredths
StopPrice(direction, entry_price, stop_pct) ==
    IF direction = "long"
    THEN entry_price * (Percent - stop_pct)
    ELSE entry_price * (Percent + stop_pct)

NewTrade(direction, entry_price, quantity, order_id, now) ==
    [is_active    |-> TRUE,
     direction    |-> Some(direction),
     entry_price  |-> Some(entry_price),
     entry_time   |-> Some(now),
     quantity     |-> quantity,
     order_id     |-> order_id,
     target_price |-> Some(TargetPrice(direction, entry_price, profit_target)),
     stop_price   |-> Some(StopPrice(direction, entry_price, stop_loss))]

MayEnter_always(trade) == TRUE

\* the test of lines 208-210: a trade can be entered
MayEnter(trade) == ~trade.is_active

enter_trade(direction, entry_price, quantity, order_id, now) ==
    LET entered == MayEnter(active_trade)
    IN  /\ active_trade' = IF entered
                           THEN NewTrade(direction, entry_price, quantity, order_id, now)
                           ELSE active_trade
        /\ levels_locked' = IF entered THEN TRUE ELSE levels_locked
        /\ last' = [op |-> "enter_trade", arg |-> None, result |-> entered,
                    raised |-> FALSE]
        /\ UNCHANGED <<params, support_level, resistance_level, price_data, ingested>>

----------------------------------------------------------------------------
(* check_exit_conditions *)

ExitSignal_stop_first(trade, current_price) ==
    IF ~trade.is_active THEN None
    ELSE IF trade.direction = Some("long")
    THEN IF trade.stop_price = None THEN TypeError
         ELSE IF current_price * Percent <= Val(trade.stop_price) THEN Some("loss")
         ELSE IF trade.target_price = None THEN TypeError
         ELSE IF current_price * Percent >= Val(trade.target_price) THEN Some("profit")
         ELSE None
    ELSE IF trade.stop_price = None THEN TypeError
         ELSE IF current_price * Percent >= Val(trade.stop_price) THEN Some("loss")
         ELSE IF trade.target_price = None THEN TypeError
         ELSE IF current_price * Percent <= Val(trade.target_price) THEN Some("profit")
         ELSE None

\* target_price and stop_price are in hundredths, so the price is scaled to compare
ExitSignal(trade, current_price) ==
    IF ~trade.is_active THEN None
    ELSE IF trade.direction = Some("long")
    THEN IF trade.target_price = None THEN TypeError
         ELSE IF current_price * Percent >= Val(trade.target_price) THEN Some("profit")
         ELSE IF trade.stop_price = None THEN TypeError
         ELSE IF current_price * Percent <= Val(trade.stop_price) THEN Some("loss")
         ELSE None
    ELSE IF trade.target_price = None THEN TypeError
         ELSE IF current_price * Percent <= Val(trade.target_price) THEN Some("profit")
         ELSE IF trade.stop_price = None THEN TypeError
         ELSE IF current_price * Percent >= Val(trade.stop_price) THEN Some("loss")
         ELSE None

check_exit_conditions(current_price) ==
    LET signal == ExitSignal(active_trade, current_price)
    IN  /\ last' = [op |-> "check_exit_conditions", arg |-> Some(current_price),
                    result |-> signal, raised |-> signal = TypeError]
        /\ UNCHANGED <<params, svars, ingested>>

----------------------------------------------------------------------------
(* exit_trade *)

\* (exit_price - entry_price) * quantity, mirrored for a short trade
Pnl(direction, entry_price, exit_price, quantity) ==
    IF direction = "long"
    THEN (exit_price - entry_price) * quantity
    ELSE (entry_price - exit_price) * quantity

Move_unmirrored(direction, entry_price, exit_price) == exit_price - entry_price

\* the numerator of pnl_percent: the price move in the trade's favour
Move(direction, entry_price, exit_price) ==
    IF direction = "long" THEN exit_price - entry_price ELSE entry_price - exit_price

\* round(x, 2) of x = n / d, in hundredths
Round2(n, d) == RoundDiv(n * 100, d)

TradeSummary(trade, exit_price, exit_reason, exit_order_id, now) ==
    LET entry_price == Val(trade.entry_price)
        direction   == Val(trade.direction)
    IN  [direction      |-> direction,
         entry_price    |-> entry_price,
         exit_price     |-> exit_price,
         quantity       |-> trade.quantity,
         entry_time     |-> Val(trade.entry_time),
         exit_time      |-> now,
         exit_reason    |-> exit_reason,
         pnl            |-> Round2(Pnl(direction, entry_price, exit_price,
                                       trade.quantity), 1),
         pnl_percent    |-> Round2(Move(direction, entry_price, exit_price) * Percent,
                                   entry_price),
         entry_order_id |-> trade.order_id,
         exit_order_id  |-> exit_order_id]

\* the empty dict of line 293
EmptySummary == <<>>

LockedAfterExit_kept == TRUE

\* line 336: the levels are unlocked for new detection
LockedAfterExit == FALSE

\* the division of lines 302 and 305 raises ZeroDivisionError
DivisionRaises(trade) == Val(trade.entry_price) = 0

ExitRefused_clearing(exit_price) ==
    /\ last' = [op |-> "exit_trade", arg |-> Some(exit_price),
                result |-> EmptySummary, raised |-> FALSE]
    /\ levels_locked' = FALSE
    /\ support_level' = None
    /\ resistance_level' = None
    /\ UNCHANGED <<params, active_trade, price_data, ingested>>

\* lines 291-293: no active trade, the empty dict is returned
ExitRefused(exit_price) ==
    /\ last' = [op |-> "exit_trade", arg |-> Some(exit_price),
                result |-> EmptySummary, raised |-> FALSE]
    /\ UNCHANGED <<params, svars, ingested>>

exit_trade(exit_price, exit_reason, exit_order_id, now) ==
    IF ~active_trade.is_active
    THEN ExitRefused(exit_price)
    ELSE IF DivisionRaises(active_trade)
    THEN /\ last' = [op |-> "exit_trade", arg |-> Some(exit_price),
                     result |-> None, raised |-> TRUE]
         /\ UNCHANGED <<params, svars, ingested>>
    ELSE /\ last' = [op |-> "exit_trade", arg |-> Some(exit_price),
                     result |-> Some(TradeSummary(active_trade, exit_price,
                                                  exit_reason, exit_order_id, now)),
                     raised |-> FALSE]
         /\ active_trade' = InactiveTrade
         /\ levels_locked' = LockedAfterExit
         /\ support_level' = None
         /\ resistance_level' = None
         /\ UNCHANGED <<params, price_data, ingested>>

----------------------------------------------------------------------------
(* get_status *)

get_status ==
    /\ last' = [op |-> "get_status", arg |-> None,
                result |-> [support_level |-> support_level,
                            resistance_level |-> resistance_level,
                            levels_locked |-> levels_locked,
                            active_trade |-> active_trade,
                            data_points |-> Len(price_data),
                            lookback_period |-> lookback_period,
                            profit_target_percent |-> profit_target,
                            stop_loss_percent |-> stop_loss],
                raised |-> FALSE]
    /\ UNCHANGED <<params, svars, ingested>>

----------------------------------------------------------------------------
(* reset_strategy *)

ResetBuffer_kept == price_data

\* line 384: self.price_data = []
ResetBuffer == <<>>

reset_strategy ==
    /\ support_level' = None
    /\ resistance_level' = None
    /\ levels_locked' = FALSE
    /\ active_trade' = InactiveTrade
    /\ price_data' = ResetBuffer
    /\ ingested' = <<>>
    /\ last' = [op |-> "reset_strategy", arg |-> None, result |-> None,
                raised |-> FALSE]
    /\ UNCHANGED params

----------------------------------------------------------------------------
(* Spec: one instance, every operation of the class, any order.  The       *)
(* operations are atomic: each runs inside "with self.lock".               *)

\* add_price_data accepts any three floats; high >= low is not checked.  Between
\* two of the second kind, the first kind is a swing low and a swing high at 100
\* (support >= resistance) and the third kind a swing low at 100 and a swing high
\* at 101; between two of the first kind, the third kind is a swing high alone.
Candles ==
    { [high |-> 100, low |-> 100, close |-> 100],
      [high |->  99, low |-> 101, close |-> 100],
      [high |-> 101, low |-> 100, close |-> 101] }

Lookbacks    == {1, 2}
Prices       == {97, 100, 103}
Directions   == {"long", "short"}
Reasons      == {"profit", "loss", "manual"}

\* nothing of src/main.py runs: no request, no order, an empty registry, the
\* monitoring flag and thread as lines 26-27 leave them
NoApp ==
    /\ web = None
    /\ orders = {}
    /\ strategy_instances = <<>>
    /\ monitoring_active = FALSE
    /\ monitoring_thread = None
    /\ monitors = <<>>
    /\ callers = <<>>

NoThreads ==
    /\ lock = None
    /\ pc = <<>>
    /\ call = <<>>
    /\ ret = <<>>
    /\ NoApp

Init ==
    /\ \E lookback \in Lookbacks : Constructed(lookback)
    /\ NoThreads

Ingest ==
    /\ Len(price_data) < MaxLen
    /\ \E c \in Candles : add_price_data(c.high, c.low, c.close, Some(0), 0)
    /\ UNCHANGED <<tvars, avars>>

RefreshLevels == update_levels /\ UNCHANGED <<tvars, avars>>

DetectBreakout == (\E p \in Prices : check_breakout_signal(p)) /\ UNCHANGED <<tvars, avars>>

Enter ==
    /\ \E d \in Directions : enter_trade(d, 100, 10, Some("o1"), 1)
    /\ UNCHANGED <<tvars, avars>>

CheckExit == (\E p \in Prices : check_exit_conditions(p)) /\ UNCHANGED <<tvars, avars>>

Exit ==
    /\ \E p \in Prices, r \in {"profit", "manual"} : exit_trade(p, r, Some("x1"), 2)
    /\ UNCHANGED <<tvars, avars>>

Status == get_status /\ UNCHANGED <<tvars, avars>>

Reset == reset_strategy /\ UNCHANGED <<tvars, avars>>

Next ==
    \/ Ingest
    \/ RefreshLevels
    \/ DetectBreakout
    \/ Enter
    \/ CheckExit
    \/ Exit
    \/ Status
    \/ Reset

Spec == Init /\ [][Next]_vars

----------------------------------------------------------------------------
(* SpecTrade: the same instance and operations, with the inputs of the     *)
(* trade varied (entry price, quantity, order id, time, exit price) and    *)
(* the candles kept to two kinds.                                          *)

TradeCandles ==
    { [high |-> 100, low |-> 100, close |-> 100],
      [high |-> 102, low |->  98, close |-> 100] }

TradePrices       == {0, 2, 4, 97, 99, 100, 101, 103}
TradeEntryPrices  == {0, 3, 100}
TradeQuantities   == {1, 10}
TradeOrderIds     == {None, Some("o1")}
TradeTimes        == {1, 2}

InitTrade ==
    /\ Constructed(1)
    /\ NoThreads

TIngest ==
    /\ Len(price_data) < MaxLenT
    /\ \E c \in TradeCandles : add_price_data(c.high, c.low, c.close, None, 0)
    /\ UNCHANGED <<tvars, avars>>

TDetectBreakout == (\E p \in TradePrices : check_breakout_signal(p)) /\ UNCHANGED <<tvars, avars>>

TEnter ==
    /\ \E d \in Directions, e \in TradeEntryPrices, q \in TradeQuantities,
          o \in TradeOrderIds, now \in TradeTimes : enter_trade(d, e, q, o, now)
    /\ UNCHANGED <<tvars, avars>>

TCheckExit == (\E p \in TradePrices : check_exit_conditions(p)) /\ UNCHANGED <<tvars, avars>>

TExit ==
    /\ \E p \in TradePrices, r \in Reasons : exit_trade(p, r, Some("x1"), 3)
    /\ UNCHANGED <<tvars, avars>>

NextTrade ==
    \/ TIngest
    \/ RefreshLevels
    \/ TDetectBreakout
    \/ TEnter
    \/ TCheckExit
    \/ TExit
    \/ Reset

SpecTrade == InitTrade /\ [][NextTrade]_vars

----------------------------------------------------------------------------
(* SpecBuf: a long run of add_price_data calls on an instance built with   *)
(* the default parameters.  No timestamp is passed, so each point takes    *)
(* the time of its call, here its arrival number.                          *)

BufCandle == [high |-> 100, low |-> 100, close |-> 100]

InitBuf ==
    /\ Constructed(DefaultLookback)
    /\ NoThreads

BIngest ==
    /\ Len(ingested) < MaxIngest
    /\ add_price_data(BufCandle.high, BufCandle.low, BufCandle.close, None,
                      Len(ingested) + 1)
    /\ UNCHANGED <<tvars, avars>>

NextBuf ==
    \/ BIngest
    \/ RefreshLevels
    \/ Status
    \/ Reset

SpecBuf == InitBuf /\ [][NextBuf]_vars

----------------------------------------------------------------------------
(* SpecScenario: an instance with the default lookback of 10 is fed 12     *)
(* points: a flat base, one candle with the highest high, one with the     *)
(* lowest low, and a lesser high and a lesser low somewhere.               *)

ScenarioLen == DefaultLookback + 2

ScenarioR == 2515
ScenarioS == 2480

ScenarioBuffer(i, j, k) ==
    [n \in 1 .. ScenarioLen |->
        [high  |-> IF n = i THEN ScenarioR ELSE IF n = k THEN 2510 ELSE 2500,
         low   |-> IF n = j THEN ScenarioS ELSE IF n = k THEN 2485 ELSE 2490,
         close |-> 2495]]

\* the highest high and the lowest low are at interior places of the window
ScenarioBuffers ==
    {ScenarioBuffer(i, j, k) : i \in 2 .. (ScenarioLen - 1), j \in 2 .. (ScenarioLen - 1),
                               k \in {1, 4, 9}}

ScenarioPrices == {2470, 2480, 2500, 2515, 2520}

Candle(point) == [high |-> point.high, low |-> point.low, close |-> point.close]

InitScenario ==
    /\ Constructed(DefaultLookback)
    /\ NoThreads

SIngest ==
    /\ \E b \in ScenarioBuffers :
          /\ Len(price_data) < Len(b)
          /\ \A n \in 1 .. Len(price_data) : Candle(price_data[n]) = b[n]
          /\ LET c == b[Len(price_data) + 1]
             IN  add_price_data(c.high, c.low, c.close, None, 0)
    /\ UNCHANGED <<tvars, avars>>

SDetectBreakout == (\E p \in ScenarioPrices : check_breakout_signal(p)) /\ UNCHANGED <<tvars, avars>>

NextScenario ==
    \/ SIngest
    \/ RefreshLevels
    \/ SDetectBreakout

SpecScenario == InitScenario /\ [][NextScenario]_vars

----------------------------------------------------------------------------
(* SpecEnter: threads call enter_trade on one instance at the same time.   *)
(* Here the call is taken in its steps: the thread waits for self.lock,    *)
(* tests is_active, and either returns False or writes the trade; the lock *)
(* is released when the with block is left.                                *)

Threads == 1 .. NumThreads

\* the entry prices the threads call enter_trade with
EnterPrices == {3, 100}

\* the quantities the threads call enter_trade with
EnterQuantities == {0, 10}

InitEnter ==
    /\ Constructed(DefaultLookback)
    /\ lock = None
    /\ pc = [t \in Threads |-> "idle"]
    /\ call = [t \in Threads |-> None]
    /\ ret = [t \in Threads |-> None]
    /\ NoApp

LockFree_any(l) == TRUE

\* threading.Lock: acquired only when no thread holds it
LockFree(l) == l = None

\* thread t calls enter_trade
EnterCall(t) ==
    /\ pc[t] = "idle"
    /\ \E d \in Directions, q \in EnterQuantities, e \in EnterPrices :
          call' = [call EXCEPT ![t] = Some([direction |-> d, entry_price |-> e,
                                            quantity |-> q, order_id |-> Some(t),
                                            now |-> t])]
    /\ pc' = [pc EXCEPT ![t] = "acquire"]
    /\ UNCHANGED <<params, svars, last, ingested, lock, ret, avars>>

\* line 207: with self.lock
EnterAcquire(t) ==
    /\ pc[t] = "acquire"
    /\ LockFree(lock)
    /\ lock' = Some(t)
    /\ pc' = [pc EXCEPT ![t] = "test"]
    /\ UNCHANGED <<params, svars, last, ingested, call, ret, avars>>

\* lines 208-210: the test of is_active, and the return of False
EnterTest(t) ==
    /\ pc[t] = "test"
    /\ IF MayEnter(active_trade)
       THEN /\ pc' = [pc EXCEPT ![t] = "write"]
            /\ UNCHANGED <<lock, ret, last>>
       ELSE /\ pc' = [pc EXCEPT ![t] = "done"]
            /\ ret' = [ret EXCEPT ![t] = Some(FALSE)]
            /\ lock' = None
            /\ last' = [op |-> "enter_trade", arg |-> None, result |-> FALSE,
                        raised |-> FALSE]
    /\ UNCHANGED <<params, svars, ingested, call, avars>>

\* lines 212-238: the trade is written, the levels are locked, True is returned
EnterWrite(t) ==
    /\ pc[t] = "write"
    /\ LET a == Val(call[t])
       IN  active_trade' = NewTrade(a.direction, a.entry_price, a.quantity,
                                    a.order_id, a.now)
    /\ levels_locked' = TRUE
    /\ pc' = [pc EXCEPT ![t] = "done"]
    /\ ret' = [ret EXCEPT ![t] = Some(TRUE)]
    /\ lock' = None
    /\ last' = [op |-> "enter_trade", arg |-> None, result |-> TRUE, raised |-> FALSE]
    /\ UNCHANGED <<params, support_level, resistance_level, price_data, ingested, call,
                   avars>>

NextEnter ==
    \E t \in Threads :
        \/ EnterCall(t)
        \/ EnterAcquire(t)
        \/ EnterTest(t)
        \/ EnterWrite(t)

SpecEnter == InitEnter /\ [][NextEnter]_vars

----------------------------------------------------------------------------
(* place_order of src/kite_utils.py *)

\* str.lower, on the action strings that occur
Lower(action) ==
    CASE action = "BUY"  -> "buy"
      [] action = "SELL" -> "sell"
      [] OTHER           -> action

\* what kite.place_order does with a request that reaches it: it returns an
\* order id, or it raises (as get_kite does without a token)
Broker == {"accept", "reject"}

OrderError       == [status |-> "error", order_id |-> None]
OrderSuccess(id) == [status |-> "success", order_id |-> Some(id)]

place_order_any_action(symbol, action, qty, broker) ==
    IF qty <= 0 THEN OrderError
    ELSE IF broker = "accept" THEN OrderSuccess("k1")
    ELSE OrderError

\* lines 134-181: both validations raise inside the try, and every exception
\* is turned into the error result
place_order(symbol, action, qty, broker) ==
    IF Lower(action) \notin {"buy", "sell"} THEN OrderError
    ELSE IF qty <= 0 THEN OrderError
    ELSE IF broker = "accept" THEN OrderSuccess("k1")
    ELSE OrderError

\* the request as place_order was handed it, and how it ended
OrderRecord(path, symbol, action, qty, result) ==
    [path |-> path, symbol |-> symbol, action |-> action, quantity |-> qty,
     status |-> result.status]

----------------------------------------------------------------------------
(* The registry entries and the monitoring loop of src/main.py *)

\* what the loop and the handlers use of an instance held by the registry
NewInstance ==
    [support_level |-> None, resistance_level |-> None, levels_locked |-> FALSE,
     active_trade |-> InactiveTrade]

\* enter_trade on an instance of the registry
enter_trade_on(inst, direction, entry_price, quantity, order_id, now) ==
    IF MayEnter(inst.active_trade)
    THEN [inst EXCEPT !.active_trade = NewTrade(direction, entry_price, quantity,
                                                order_id, now),
                      !.levels_locked = TRUE]
    ELSE inst

\* exit_trade on an instance of the registry whose trade is active and whose
\* entry price is not 0
exit_trade_on(inst) ==
    [inst EXCEPT !.active_trade = InactiveTrade,
                 !.levels_locked = LockedAfterExit,
                 !.support_level = None,
                 !.resistance_level = None]

\* the order in which the registry's dict yields its symbols
InsertionOrder == <<"INFY", "RELIANCE">>

IsActive(symbol) ==
    /\ symbol \in DOMAIN strategy_instances
    /\ strategy_instances[symbol].active_trade.is_active

ActiveStrategies_all ==
    SelectSeq(InsertionOrder, LAMBDA symbol : symbol \in DOMAIN strategy_instances)

\* lines 40-43: the instances with an active trade, read without their locks
ActiveStrategies == SelectSeq(InsertionOrder, IsActive)

\* a thread that has just entered ltp_monitor; stop_requested records that
\* stop_monitoring cleared the flag while this thread was running, evaluated is
\* the trade check_exit_conditions looked at, order_request what place_order was
\* called with, and trade_summary what exit_trade returned
LoopStart ==
    [pc |-> "top", queue |-> <<>>, ltp_result |-> None, exit_signal |-> None,
     order_result |-> None, stop_requested |-> FALSE, evaluated |-> None,
     order_request |-> None, trade_summary |-> None]

Running(m) == m.pc # "stopped"

\* n is a thread that start_monitoring has created
IsLoop(n) == n \in DOMAIN monitors

\* line 37, and lines 40-47 when the flag is set: the thread leaves the loop,
\* or sleeps when no trade is active, or starts on the snapshot
LoopTop(n) ==
    LET m == monitors[n]
    IN  /\ IsLoop(n)
        /\ m.pc = "top"
        /\ monitors' = [monitors EXCEPT ![n] =
              IF ~monitoring_active THEN [m EXCEPT !.pc = "stopped"]
              ELSE IF ActiveStrategies = <<>> THEN [m EXCEPT !.pc = "sleep"]
              ELSE [LoopStart EXCEPT !.pc = "fetch", !.queue = ActiveStrategies,
                                     !.stop_requested = m.stop_requested]]
        /\ UNCHANGED <<ivars, tvars, web, orders, strategy_instances, monitoring_active,
                       monitoring_thread, callers>>

\* lines 46, 88 and 92: time.sleep returns; what the pass recorded about its
\* last symbol is of no use to the next pass
LoopWake(n) ==
    /\ IsLoop(n)
    /\ monitors[n].pc = "sleep"
    /\ monitors' = [monitors EXCEPT ![n] =
          [monitors[n] EXCEPT !.pc = "top", !.evaluated = None,
                              !.order_request = None, !.trade_summary = None]]
    /\ UNCHANGED <<ivars, tvars, web, orders, strategy_instances, monitoring_active,
                   monitoring_thread, callers>>

\* get_ltp: the last traded price of the symbol, or a failure
LtpFailure      == [status |-> "error", ltp |-> None]
LtpSuccess(ltp) == [status |-> "success", ltp |-> Some(ltp)]

\* the for statement of line 50 takes the next pair of the snapshot, and after
\* the last one the thread sleeps (line 88)
AfterSymbol(m) ==
    [m EXCEPT !.queue = Tail(m.queue),
              !.pc = IF Len(m.queue) > 1 THEN "fetch" ELSE "sleep"]

AfterFailure_outer(m) == [m EXCEPT !.queue = <<>>, !.pc = "sleep"]

\* lines 55-57 and 85-86: continue, and the except clause inside the for
\* statement, both go on with the next pair
AfterFailure(m) == AfterSymbol(m)

OrderAccepted_any(order_result) == TRUE

\* line 73
OrderAccepted(order_result) == order_result.status = "success"

\* lines 53-65 for the pair at the head of the queue: the price is fetched and
\* check_exit_conditions is called with it
LoopFetch(n, ltp_result) ==
    LET m      == monitors[n]
        symbol == Head(m.queue)
        fetched == [m EXCEPT !.ltp_result = Some(ltp_result), !.evaluated = None,
                             !.order_request = None, !.trade_summary = None]
    IN  /\ IsLoop(n)
        /\ m.pc = "fetch"
        /\ monitors' = [monitors EXCEPT ![n] =
              IF ltp_result.status # "success" THEN AfterFailure(fetched)
              ELSE LET exit_signal == ExitSignal(strategy_instances[symbol].active_trade,
                                                 Val(ltp_result.ltp))
                   IN  IF exit_signal = TypeError THEN AfterFailure(fetched)
                       ELSE IF exit_signal = None THEN AfterSymbol(fetched)
                       ELSE [fetched EXCEPT
                                !.exit_signal = exit_signal,
                                !.evaluated = Some(strategy_instances[symbol].active_trade),
                                !.pc = "order"]]
        /\ UNCHANGED <<ivars, tvars, web, orders, strategy_instances, monitoring_active,
                       monitoring_thread, callers>>

\* lines 68-83: the trade is read without the lock and the opposite order is
\* placed; exit_trade is called only when the order was accepted
LoopOrder(n, broker) ==
    LET m            == monitors[n]
        symbol       == Head(m.queue)
        trade        == strategy_instances[symbol].active_trade
        exit_action  == IF trade.direction = Some("long") THEN "sell" ELSE "buy"
        order_result == place_order(symbol, exit_action, trade.quantity, broker)
        ordered      == [m EXCEPT
                            !.order_result = Some(order_result),
                            !.order_request = Some([symbol |-> symbol,
                                                    action |-> exit_action,
                                                    quantity |-> trade.quantity])]
    IN  /\ IsLoop(n)
        /\ m.pc = "order"
        /\ monitors' = [monitors EXCEPT ![n] =
              IF OrderAccepted(order_result)
              THEN [ordered EXCEPT !.pc = "exit"]
              ELSE AfterSymbol(ordered)]
        /\ UNCHANGED <<ivars, tvars, web, orders, strategy_instances, monitoring_active,
                       monitoring_thread, callers>>

\* lines 75-81 and 85-86: exit_trade returns {} when the trade is no longer
\* active, raises ZeroDivisionError for an entry price of 0 (caught at line 85),
\* and closes the trade otherwise
LoopExit(n) ==
    LET m      == monitors[n]
        symbol == Head(m.queue)
        inst   == strategy_instances[symbol]
        trade_summary == TradeSummary(inst.active_trade, Val(Val(m.ltp_result).ltp),
                                       Val(m.exit_signal), Val(m.order_result).order_id,
                                       0)
    IN  /\ IsLoop(n)
        /\ m.pc = "exit"
        /\ IF ~inst.active_trade.is_active
           THEN /\ monitors' = [monitors EXCEPT ![n] =
                      AfterSymbol([m EXCEPT !.trade_summary = Some(EmptySummary)])]
                /\ UNCHANGED strategy_instances
           ELSE IF DivisionRaises(inst.active_trade)
           THEN /\ monitors' = [monitors EXCEPT ![n] = AfterFailure(m)]
                /\ UNCHANGED strategy_instances
           ELSE /\ monitors' = [monitors EXCEPT ![n] =
                      AfterSymbol([m EXCEPT !.trade_summary = Some(trade_summary)])]
                /\ strategy_instances' =
                      [strategy_instances EXCEPT ![symbol] = exit_trade_on(inst)]
        /\ UNCHANGED <<ivars, tvars, web, orders, monitoring_active, monitoring_thread,
                       callers>>

----------------------------------------------------------------------------
(* SpecWebhook: the /webhook handler of src/main.py, one request at a time, *)
(* on the instance get_strategy holds for one symbol (default parameters).  *)
(* The server has called start_monitoring at startup; no trade is active,   *)
(* so the monitoring loop finds nothing to do and its steps are left out.   *)
(* The broker accepts every request that reaches it.                        *)

WebSymbol == "RELIANCE"

\* the first ScenarioLen observations form one of these buffers
WebBuffers ==
    {ScenarioBuffer(i, j, 1) : i \in {3, 6}, j \in {5, 8}}

\* the closes of the observations that follow: below the support, between the
\* levels, above the resistance
WebCloses == {2470, 2495, 2520}

WebCandle(close) ==
    [high |-> Max({2500, close}), low |-> Min({2490, close}), close |-> close]

\* data.get('quantity', 1) of line 217: the payload may carry no quantity
WebQuantities == {None, Some(5)}

\* the action of a manual directive
WebActions == {"buy", "SELL", "hold"}

WebBroker == {"accept"}

WebIdle == [pc |-> "idle", close |-> 0, quantity |-> None, signal |-> None,
            trade_entered |-> FALSE]

InitWebhook ==
    /\ Constructed(DefaultLookback)
    /\ lock = None
    /\ pc = <<>>
    /\ call = <<>>
    /\ ret = <<>>
    /\ web = WebIdle
    /\ orders = {}
    /\ strategy_instances = <<>>
    /\ monitoring_active = TRUE
    /\ monitoring_thread = Some(1)
    /\ monitors = <<LoopStart>>
    /\ callers = <<>>

WebUnchanged == UNCHANGED <<tvars, strategy_instances, monitoring_active,
                            monitoring_thread, monitors, callers>>

\* the observation that arrives next
NextCandles ==
    IF Len(ingested) < ScenarioLen
    THEN {b[Len(ingested) + 1] : b \in
             {c \in WebBuffers :
                 \A n \in 1 .. Len(ingested) : Candle(ingested[n]) = c[n]}}
    ELSE {WebCandle(close) : close \in WebCloses}

\* lines 187-195: a price observation arrives and is added to the buffer
WebObservation ==
    /\ web.pc \in {"idle", "done"}
    /\ Len(ingested) < ScenarioLen + MaxTail
    /\ \E c \in NextCandles, q \in WebQuantities :
          /\ add_price_data(c.high, c.low, c.close, None, 0)
          /\ web' = [pc |-> "update", close |-> c.close, quantity |-> q,
                     signal |-> None, trade_entered |-> FALSE]
    /\ UNCHANGED orders
    /\ WebUnchanged

\* line 198
WebUpdateLevels ==
    /\ web.pc = "update"
    /\ update_levels
    /\ web' = [web EXCEPT !.pc = "breakout"]
    /\ UNCHANGED orders
    /\ WebUnchanged

\* lines 201-215: without a signal the response is returned
WebCheckBreakout ==
    /\ web.pc = "breakout"
    /\ check_breakout_signal(web.close)
    /\ web' = [web EXCEPT !.signal = last'.result,
                          !.pc = IF last'.result = None THEN "done" ELSE "execute"]
    /\ UNCHANGED orders
    /\ WebUnchanged

\* lines 217-246: the order is placed with the signal as its action; enter_trade
\* and start_monitoring are called only when place_order reports success
WebExecute ==
    /\ web.pc = "execute"
    /\ \E broker \in WebBroker :
          LET quantity     == IF web.quantity = None THEN 1 ELSE Val(web.quantity)
              order_result == place_order(WebSymbol, Val(web.signal), quantity, broker)
          IN  /\ orders' = orders \cup {OrderRecord("webhook", WebSymbol, Val(web.signal),
                                                    quantity, order_result)}
              /\ IF order_result.status = "success"
                 THEN /\ enter_trade(Val(web.signal), web.close, quantity,
                                     order_result.order_id, Len(ingested))
                      /\ web' = [web EXCEPT !.pc = "done", !.trade_entered = last'.result]
                 ELSE /\ web' = [web EXCEPT !.pc = "done"]
                      /\ UNCHANGED ivars
    /\ WebUnchanged

\* lines 248-267: a manual directive goes to place_order after the test of its
\* action, whatever the state of the instance
WebDirective ==
    /\ web.pc \in {"idle", "done"}
    /\ \E action \in WebActions, q \in WebQuantities, broker \in WebBroker :
          LET quantity == IF q = None THEN 1 ELSE Val(q)
          IN  IF Lower(action) \notin {"buy", "sell"}
              THEN UNCHANGED orders
              ELSE orders' = orders \cup
                                {OrderRecord("manual", WebSymbol, action, quantity,
                                             place_order(WebSymbol, action, quantity, broker))}
    /\ web' = WebIdle
    /\ UNCHANGED ivars
    /\ WebUnchanged

NextWebhook ==
    \/ WebObservation
    \/ WebUpdateLevels
    \/ WebCheckBreakout
    \/ WebExecute
    \/ WebDirective

SpecWebhook == InitWebhook /\ [][NextWebhook]_vars

----------------------------------------------------------------------------
(* SpecCtl: start_monitoring and stop_monitoring, called by the threads of  *)
(* the server (app.run(threaded=True)) after the call of startup, while the *)
(* registry is empty.  Each is taken line by line: the test of the flag,    *)
(* its assignment, and the creation of the thread or the join.              *)

Callers == 1 .. NumCallers

\* lines 617-621: start_monitoring has been called once
InitCtl ==
    /\ Constructed(DefaultLookback)
    /\ lock = None
    /\ pc = <<>>
    /\ call = <<>>
    /\ ret = <<>>
    /\ web = None
    /\ orders = {}
    /\ strategy_instances = <<>>
    /\ monitoring_active = TRUE
    /\ monitoring_thread = Some(1)
    /\ monitors = <<LoopStart>>
    /\ callers = [c \in Callers |-> "idle"]

CtlUnchanged == UNCHANGED <<ivars, tvars, web, orders, strategy_instances>>

Starting == {c \in Callers : callers[c] \in {"start_set", "start_spawn"}}

\* line 101
StartCheck(c) ==
    /\ callers[c] = "idle"
    /\ Len(monitors) + Cardinality(Starting) < MaxLoops
    /\ callers' = [callers EXCEPT ![c] = IF monitoring_active THEN "idle" ELSE "start_set"]
    /\ UNCHANGED <<monitoring_active, monitoring_thread, monitors>>
    /\ CtlUnchanged

\* line 102
StartSet(c) ==
    /\ callers[c] = "start_set"
    /\ monitoring_active' = TRUE
    /\ callers' = [callers EXCEPT ![c] = "start_spawn"]
    /\ UNCHANGED <<monitoring_thread, monitors>>
    /\ CtlUnchanged

\* lines 103-104
StartSpawn(c) ==
    /\ callers[c] = "start_spawn"
    /\ monitors' = Append(monitors, LoopStart)
    /\ monitoring_thread' = Some(Len(monitors) + 1)
    /\ callers' = [callers EXCEPT ![c] = "idle"]
    /\ UNCHANGED monitoring_active
    /\ CtlUnchanged

\* line 112
StopCheck(c) ==
    /\ callers[c] = "idle"
    /\ callers' = [callers EXCEPT ![c] = IF monitoring_active THEN "stop_set" ELSE "idle"]
    /\ UNCHANGED <<monitoring_active, monitoring_thread, monitors>>
    /\ CtlUnchanged

\* line 113
StopSet(c) ==
    /\ callers[c] = "stop_set"
    /\ monitoring_active' = FALSE
    /\ monitors' = [n \in DOMAIN monitors |->
                       IF Running(monitors[n])
                       THEN [monitors[n] EXCEPT !.stop_requested = TRUE]
                       ELSE monitors[n]]
    /\ callers' = [callers EXCEPT ![c] = "stop_join"]
    /\ UNCHANGED monitoring_thread
    /\ CtlUnchanged

\* lines 114-116: join returns when the thread has ended or after 10 seconds
StopJoin(c) ==
    /\ callers[c] = "stop_join"
    /\ callers' = [callers EXCEPT ![c] = "idle"]
    /\ UNCHANGED <<monitoring_active, monitoring_thread, monitors>>
    /\ CtlUnchanged

NextCtl ==
    \/ \E c \in Callers :
          \/ StartCheck(c)
          \/ StartSet(c)
          \/ StartSpawn(c)
          \/ StopCheck(c)
          \/ StopSet(c)
          \/ StopJoin(c)
    \/ \E n \in 1 .. MaxLoops :
          \/ LoopTop(n)
          \/ LoopWake(n)

SpecCtl == InitCtl /\ [][NextCtl]_vars

----------------------------------------------------------------------------
(* SpecMon: the monitoring loop started at startup, over a registry of two  *)
(* instances whose trades are entered by enter_trade and cleared by the     *)
(* reset endpoint while the loop runs.  stop_monitoring may be called; no   *)
(* start follows it.                                                        *)

MonSymbols      == {"INFY", "RELIANCE"}
MonEntryPrices  == {0, 100}
MonQuantities   == {10}
MonPrices       == {97, 102, 103}

\* what get_ltp may answer
LtpResults == {LtpFailure} \cup {LtpSuccess(p) : p \in MonPrices}

InitMon ==
    /\ Constructed(DefaultLookback)
    /\ lock = None
    /\ pc = <<>>
    /\ call = <<>>
    /\ ret = <<>>
    /\ web = None
    /\ orders = {}
    /\ strategy_instances = [symbol \in MonSymbols |-> NewInstance]
    /\ monitoring_active = TRUE
    /\ monitoring_thread = Some(1)
    /\ monitors = <<LoopStart>>
    /\ callers = [c \in Callers |-> "idle"]

\* strategy.enter_trade on the instance of the symbol
MonEnter(symbol) ==
    /\ \E d \in Directions, e \in MonEntryPrices, q \in MonQuantities :
          strategy_instances' =
              [strategy_instances EXCEPT ![symbol] =
                  enter_trade_on(strategy_instances[symbol], d, e, q, Some("o1"), 0)]
    /\ UNCHANGED <<ivars, tvars, web, orders, monitoring_active, monitoring_thread,
                   monitors, callers>>

\* POST /strategy/<symbol>/reset (lines 347-363)
MonReset(symbol) ==
    /\ strategy_instances' = [strategy_instances EXCEPT ![symbol] = NewInstance]
    /\ UNCHANGED <<ivars, tvars, web, orders, monitoring_active, monitoring_thread,
                   monitors, callers>>

NextMon ==
    \/ \E symbol \in MonSymbols :
          \/ MonEnter(symbol)
          \/ MonReset(symbol)
    \/ LoopTop(1)
    \/ LoopWake(1)
    \/ \E ltp_result \in LtpResults : LoopFetch(1, ltp_result)
    \/ \E broker \in Broker : LoopOrder(1, broker)
    \/ LoopExit(1)
    \/ StopCheck(1)
    \/ StopSet(1)
    \/ StopJoin(1)

SpecMon == InitMon /\ [][NextMon]_vars

----------------------------------------------------------------------------
(* SpecReg: get_strategy of src/s_r_strategy.py, called once by each of the *)
(* threads of the server for spellings of one symbol, on an empty registry. *)
(* The call is taken in its steps: the test of membership, the store of the *)
(* new instance, and the read of the registry for the return value.         *)

\* str.upper, on the spellings that occur
Upper(symbol) ==
    CASE symbol = "infy" -> "INFY"
      [] symbol = "Infy" -> "INFY"
      [] OTHER           -> symbol

RegSymbols == {"infy", "Infy", "INFY"}

\* the object the constructor returns to thread c: a new instance, told from
\* every other by the thread that made it
Constructed_by(c) == [made_by |-> c, instance |-> NewInstance]

RegIdle == [pc |-> "idle", given |-> None, symbol |-> None, result |-> None]

InitReg ==
    /\ Constructed(DefaultLookback)
    /\ lock = None
    /\ pc = <<>>
    /\ call = <<>>
    /\ ret = <<>>
    /\ web = None
    /\ orders = {}
    /\ strategy_instances = <<>>
    /\ monitoring_active = FALSE
    /\ monitoring_thread = None
    /\ monitors = <<>>
    /\ callers = [c \in Callers |-> RegIdle]

RegUnchanged == UNCHANGED <<ivars, tvars, web, orders, monitoring_active,
                            monitoring_thread, monitors>>

\* line 403
RegCall(c) ==
    /\ callers[c].pc = "idle"
    /\ \E symbol \in RegSymbols :
          callers' = [callers EXCEPT ![c] = [pc |-> "test", given |-> Some(symbol),
                                             symbol |-> Some(Upper(symbol)),
                                             result |-> None]]
    /\ UNCHANGED strategy_instances
    /\ RegUnchanged

\* line 405
RegTest(c) ==
    /\ callers[c].pc = "test"
    /\ callers' = [callers EXCEPT ![c].pc =
                      IF Val(callers[c].symbol) \notin DOMAIN strategy_instances
                      THEN "store" ELSE "return"]
    /\ UNCHANGED strategy_instances
    /\ RegUnchanged

\* lines 406-407: the instance is constructed and stored under the symbol,
\* whatever the registry holds there by now
RegStore(c) ==
    /\ callers[c].pc = "store"
    /\ LET symbol == Val(callers[c].symbol)
       IN  strategy_instances' =
              [k \in DOMAIN strategy_instances \cup {symbol} |->
                  IF k = symbol THEN Constructed_by(c) ELSE strategy_instances[k]]
    /\ callers' = [callers EXCEPT ![c].pc = "return"]
    /\ RegUnchanged

\* line 409
RegReturn(c) ==
    /\ callers[c].pc = "return"
    /\ callers' = [callers EXCEPT ![c].pc = "done",
                                  ![c].result = Some(strategy_instances[Val(callers[c].symbol)])]
    /\ UNCHANGED strategy_instances
    /\ RegUnchanged

NextReg ==
    \E c \in Callers :
        \/ RegCall(c)
        \/ RegTest(c)
        \/ RegStore(c)
        \/ RegReturn(c)

SpecReg == InitReg /\ [][NextReg]_vars

----------------------------------------------------------------------------
(* SpecReplay: main() of src/test_strategy.py sends SAMPLE_PRICE_DATA, one  *)
(* candle per /webhook request, to the instance of TEST_SYMBOL after a      *)
(* reset; the instance has the default parameters. The payload carries no   *)
(* timestamp, so add_price_data reads the clock, which ticks or not between *)
(* two requests. The replay is followed up to its first breakout signal.    *)

\* lines 17-33 of src/test_strategy.py
SAMPLE_PRICE_DATA ==
    << [high |-> 2500, low |-> 2480, close |-> 2490],
       [high |-> 2510, low |-> 2485, close |-> 2495],
       [high |-> 2520, low |-> 2490, close |-> 2505],
       [high |-> 2515, low |-> 2495, close |-> 2500],
       [high |-> 2505, low |-> 2485, close |-> 2490],
       [high |-> 2495, low |-> 2475, close |-> 2480],
       [high |-> 2490, low |-> 2470, close |-> 2475],
       [high |-> 2485, low |-> 2465, close |-> 2470],
       [high |-> 2480, low |-> 2460, close |-> 2465],
       [high |-> 2475, low |-> 2455, close |-> 2460],
       [high |-> 2470, low |-> 2450, close |-> 2455],
       [high |-> 2465, low |-> 2445, close |-> 2450],
       [high |-> 2460, low |-> 2440, close |-> 2445],
       [high |-> 2455, low |-> 2435, close |-> 2440],
       [high |-> 2525, low |-> 2505, close |-> 2520] >>

\* the clock when the next candle is added: not before the last one's time
ClockAfter(data) ==
    LET since == IF data = <<>> THEN 0 ELSE data[Len(data)].timestamp
    IN  {now \in {since, since + 1} : now <= MaxClock}

\* line 186 of src/test_strategy.py: reset_strategy(TEST_SYMBOL)
ReplayReset ==
    /\ web.pc = "idle"
    /\ last.op = "__init__"
    /\ reset_strategy
    /\ UNCHANGED <<web, orders>>
    /\ WebUnchanged

\* send_price_data (lines 53-64) with the next candle, and lines 187-195 of
\* src/main.py
ReplayCandle ==
    /\ \/ web.pc = "done"
       \/ web.pc = "idle" /\ last.op = "reset_strategy"
    /\ Len(ingested) < Len(SAMPLE_PRICE_DATA)
    /\ LET price_data_item == SAMPLE_PRICE_DATA[Len(ingested) + 1]
       IN  /\ \E now \in ClockAfter(ingested) :
                 add_price_data(price_data_item.high, price_data_item.low,
                                price_data_item.close, None, now)
           /\ web' = [pc |-> "update", close |-> price_data_item.close,
                      quantity |-> Some(1), signal |-> None, trade_entered |-> FALSE]
    /\ UNCHANGED orders
    /\ WebUnchanged

NextReplay ==
    \/ ReplayReset
    \/ ReplayCandle
    \/ WebUpdateLevels
    \/ WebCheckBreakout

SpecReplay == InitWebhook /\ [][NextReplay]_vars

----------------------------------------------------------------------------
(* SpecObs: price observations for one symbol handled by concurrent threads *)
(* of the server (threaded=True), each running the /webhook handler once.   *)
(* Every strategy method is atomic under the instance lock; the lock is     *)
(* free between the handler's calls. The instance has handled twelve        *)
(* observations that gave it its levels. The broker accepts every request   *)
(* that reaches it.                                                         *)

Handlers == 1 .. NumHandlers

\* the observations handled before
ObsBuffer ==
    [n \in 1 .. ScenarioLen |->
        LET c == ScenarioBuffer(3, 5, 1)[n]
        IN  PricePoint(c.high, c.low, c.close, 0)]

InitObs ==
    /\ lookback_period = DefaultLookback
    /\ profit_target = DefaultProfitTarget
    /\ stop_loss = DefaultStopLoss
    /\ price_data = ObsBuffer
    /\ ingested = ObsBuffer
    /\ support_level = detect_support_resistance(ObsBuffer, DefaultLookback)[1]
    /\ resistance_level = detect_support_resistance(ObsBuffer, DefaultLookback)[2]
    /\ levels_locked = FALSE
    /\ active_trade = InactiveTrade
    /\ last = [op |-> "check_breakout_signal", arg |-> Some(2495), result |-> None,
               raised |-> FALSE]
    /\ lock = None
    /\ pc = [t \in Handlers |-> "idle"]
    /\ call = [t \in Handlers |-> None]
    /\ ret = [t \in Handlers |-> None]
    /\ NoApp

ObsUnchanged == UNCHANGED <<lock, avars>>

\* lines 187-195 of src/main.py
ObsAdd(t) ==
    /\ pc[t] = "idle"
    /\ \E close \in WebCloses :
          /\ add_price_data(WebCandle(close).high, WebCandle(close).low, close, None, 0)
          /\ call' = [call EXCEPT ![t] = Some([close |-> close, signal |-> None])]
    /\ pc' = [pc EXCEPT ![t] = "update"]
    /\ UNCHANGED ret
    /\ ObsUnchanged

\* line 198
ObsUpdate(t) ==
    /\ pc[t] = "update"
    /\ update_levels
    /\ pc' = [pc EXCEPT ![t] = "breakout"]
    /\ UNCHANGED <<call, ret>>
    /\ ObsUnchanged

\* the response of the handler: the result of place_order, if it was called,
\* and trade_entered
ObsResponse(order_result, trade_entered) ==
    Some([order_result |-> order_result, trade_entered |-> trade_entered])

\* lines 201-215: without a signal the response is returned
ObsBreakout(t) ==
    /\ pc[t] = "breakout"
    /\ check_breakout_signal(Val(call[t]).close)
    /\ call' = [call EXCEPT ![t] = Some([Val(call[t]) EXCEPT !.signal = last'.result])]
    /\ IF last'.result = None
       THEN /\ pc' = [pc EXCEPT ![t] = "done"]
            /\ ret' = [ret EXCEPT ![t] = ObsResponse(None, FALSE)]
       ELSE /\ pc' = [pc EXCEPT ![t] = "execute"]
            /\ UNCHANGED ret
    /\ ObsUnchanged

\* lines 217-246: place_order with the signal as its action and quantity 1;
\* enter_trade is called only when place_order reports success
ObsExecute(t) ==
    /\ pc[t] = "execute"
    /\ \E broker \in WebBroker :
          LET signal       == Val(Val(call[t]).signal)
              order_result == place_order(WebSymbol, signal, 1, broker)
          IN  IF order_result.status = "success"
              THEN /\ enter_trade(signal, Val(call[t]).close, 1, order_result.order_id,
                                  Len(ingested))
                   /\ ret' = [ret EXCEPT ![t] = ObsResponse(Some(order_result),
                                                            last'.result)]
              ELSE /\ ret' = [ret EXCEPT ![t] = ObsResponse(Some(order_result), FALSE)]
                   /\ UNCHANGED ivars
    /\ pc' = [pc EXCEPT ![t] = "done"]
    /\ UNCHANGED call
    /\ ObsUnchanged

NextObs ==
    \E t \in Handlers :
        \/ ObsAdd(t)
        \/ ObsUpdate(t)
        \/ ObsBreakout(t)
        \/ ObsExecute(t)

SpecObs == InitObs /\ [][NextObs]_vars

----------------------------------------------------------------------------
(* SpecExit: the monitoring loop and POST /strategy/<symbol>/exit requests  *)
(* (manual_exit of src/main.py) on one instance that holds an active trade  *)
(* entered at 100. No trade is entered afterwards and nothing is reset; the *)
(* broker accepts every request that reaches it.                            *)

ExitSymbol == "INFY"

\* the request handler of manual_exit between two requests
ManualIdle == [pc |-> "idle", ltp_result |-> None, order_result |-> None,
               trade_summary |-> None]

InitExit ==
    /\ Constructed(DefaultLookback)
    /\ lock = None
    /\ pc = <<>>
    /\ call = <<>>
    /\ ret = <<>>
    /\ web = ManualIdle
    /\ orders = {}
    /\ \E d \in Directions :
          strategy_instances =
              [symbol \in {ExitSymbol} |->
                  enter_trade_on(NewInstance, d, 100, 10, Some("o1"), 0)]
    /\ monitoring_active = TRUE
    /\ monitoring_thread = Some(1)
    /\ monitors = <<LoopStart>>
    /\ callers = <<>>

ManualUnchanged == UNCHANGED <<ivars, tvars, orders, monitoring_active,
                               monitoring_thread, monitors, callers>>

\* lines 386-400: the test of is_active without the lock, and get_ltp
ManualCheck ==
    /\ web.pc \in {"idle", "done"}
    /\ IF ~IsActive(ExitSymbol)
       THEN web' = [ManualIdle EXCEPT !.pc = "done"]
       ELSE \E ltp_result \in LtpResults :
               web' = [ManualIdle EXCEPT
                          !.ltp_result = Some(ltp_result),
                          !.pc = IF ltp_result.status = "success" THEN "order"
                                 ELSE "done"]
    /\ UNCHANGED strategy_instances
    /\ ManualUnchanged

\* lines 401-407 and 421-426: the trade is read without the lock and the
\* opposite order is placed
ManualOrder ==
    /\ web.pc = "order"
    /\ \E broker \in WebBroker :
          LET trade        == strategy_instances[ExitSymbol].active_trade
              exit_action  == IF trade.direction = Some("long") THEN "sell" ELSE "buy"
              order_result == place_order(ExitSymbol, exit_action, trade.quantity,
                                          broker)
          IN  web' = [web EXCEPT
                         !.order_result = Some(order_result),
                         !.pc = IF order_result.status = "success" THEN "exit"
                                ELSE "done"]
    /\ UNCHANGED strategy_instances
    /\ ManualUnchanged

\* lines 407-420 and 428-434: exit_trade with the fetched price and the reason
\* 'manual'; its result goes into the response, and an error it raises is
\* caught by the handler
ManualExit ==
    LET inst == strategy_instances[ExitSymbol]
    IN  /\ web.pc = "exit"
        /\ IF ~inst.active_trade.is_active
           THEN /\ web' = [web EXCEPT !.pc = "done",
                                      !.trade_summary = Some(EmptySummary)]
                /\ UNCHANGED strategy_instances
           ELSE IF DivisionRaises(inst.active_trade)
           THEN /\ web' = [web EXCEPT !.pc = "done"]
                /\ UNCHANGED strategy_instances
           ELSE /\ web' = [web EXCEPT
                              !.pc = "done",
                              !.trade_summary = Some(TradeSummary(
                                  inst.active_trade, Val(Val(web.ltp_result).ltp),
                                  "manual", Val(web.order_result).order_id, 0))]
                /\ strategy_instances' =
                      [strategy_instances EXCEPT ![ExitSymbol] = exit_trade_on(inst)]
        /\ ManualUnchanged

NextExit ==
    \/ LoopTop(1)
    \/ LoopWake(1)
    \/ \E ltp_result \in LtpResults : LoopFetch(1, ltp_result)
    \/ \E broker \in WebBroker : LoopOrder(1, broker)
    \/ LoopExit(1)
    \/ ManualCheck
    \/ ManualOrder
    \/ ManualExit

SpecExit == InitExit /\ [][NextExit]_vars

----------------------------------------------------------------------------
(* SpecParams: instances built with other percentages than the defaults:   *)
(* profit_target from 1% to 150%, stop_loss from 1% to 99%. Trades are      *)
(* entered at positive prices and checked at prices around them.            *)

\* profit_target and stop_loss of __init__, in hundredths
ProfitTargets == {1, 3, 50, 150}
StopLosses    == {1, 50, 99}

ParamEntryPrices == {1, 3, 100}
ParamPrices      == {0, 1, 2, 3, 4, 50, 99, 100, 101, 150, 250}

InitParams ==
    /\ lookback_period = DefaultLookback
    /\ profit_target \in ProfitTargets
    /\ stop_loss \in StopLosses
    /\ support_level = None
    /\ resistance_level = None
    /\ levels_locked = FALSE
    /\ active_trade = InactiveTrade
    /\ price_data = <<>>
    /\ last = NoCall
    /\ ingested = <<>>
    /\ NoThreads

PEnter ==
    /\ \E d \in Directions, e \in ParamEntryPrices : enter_trade(d, e, 1, Some("o1"), 1)
    /\ UNCHANGED <<tvars, avars>>

PCheckExit ==
    /\ \E p \in ParamPrices : check_exit_conditions(p)
    /\ UNCHANGED <<tvars, avars>>

NextParams ==
    \/ PEnter
    \/ PCheckExit
    \/ Reset

SpecParams == InitParams /\ [][NextParams]_vars

----------------------------------------------------------------------------
(* SpecLock: threads that each call one method of the same instance, with   *)
(* the instance lock (threading.Lock, not reentrant) made explicit: a call  *)
(* first acquires the lock, then runs the body of its with statement and    *)
(* releases the lock when the body is left, by return or by an exception.   *)
(* The instance is new, or holds a trade entered at price 0.                *)

Lockers == 1 .. NumLockers

\* the methods that take the lock
LockOps == {"add_price_data", "update_levels", "check_breakout_signal", "enter_trade",
            "check_exit_conditions", "exit_trade", "get_status", "reset_strategy"}

DetectorRelocks_again == TRUE

\* lines 98-134: detect_support_resistance has no with self.lock of its own
DetectorRelocks == FALSE

InitLock ==
    /\ lookback_period = 1
    /\ profit_target = DefaultProfitTarget
    /\ stop_loss = DefaultStopLoss
    /\ support_level = None
    /\ resistance_level = None
    /\ active_trade \in {InactiveTrade, NewTrade("long", 0, 10, Some("o1"), 0)}
    /\ levels_locked = active_trade.is_active
    /\ price_data = <<>>
    /\ last = NoCall
    /\ ingested = <<>>
    /\ lock = None
    /\ pc = [t \in Lockers |-> "idle"]
    /\ call = [t \in Lockers |-> None]
    /\ ret = [t \in Lockers |-> None]
    /\ NoApp

\* thread t calls a method
LockCall(t) ==
    /\ pc[t] = "idle"
    /\ \E op \in LockOps : call' = [call EXCEPT ![t] = Some(op)]
    /\ pc' = [pc EXCEPT ![t] = "acquire"]
    /\ UNCHANGED <<ivars, lock, ret, avars>>

\* with self.lock: the thread goes on when the lock is free
LockAcquire(t) ==
    /\ pc[t] = "acquire"
    /\ LockFree(lock)
    /\ lock' = Some(t)
    /\ pc' = [pc EXCEPT ![t] = "body"]
    /\ UNCHANGED <<ivars, call, ret, avars>>

\* the body of the method called
LockedBody(op, t) ==
    CASE op = "add_price_data" -> add_price_data(100, 100, 100, None, t)
      [] op = "update_levels" -> update_levels
      [] op = "check_breakout_signal" -> check_breakout_signal(103)
      [] op = "enter_trade" ->
            \E e \in MonEntryPrices : enter_trade("long", e, 10, Some("o1"), t)
      [] op = "check_exit_conditions" -> check_exit_conditions(103)
      [] op = "exit_trade" -> exit_trade(103, "manual", Some("x1"), t)
      [] op = "get_status" -> get_status
      [] op = "reset_strategy" -> reset_strategy

\* the body runs and the with statement releases the lock, also when the body
\* raises; update_levels calls the detector from inside its body (line 149)
LockBody(t) ==
    /\ pc[t] = "body"
    /\ IF Val(call[t]) = "update_levels" /\ ~LevelsFrozen(levels_locked)
          /\ DetectorRelocks
       THEN /\ pc' = [pc EXCEPT ![t] = "acquire"]
            /\ UNCHANGED <<ivars, lock, ret>>
       ELSE /\ LockedBody(Val(call[t]), t)
            /\ lock' = None
            /\ pc' = [pc EXCEPT ![t] = "done"]
            /\ ret' = [ret EXCEPT ![t] = Some([raised |-> last'.raised])]
    /\ UNCHANGED <<call, avars>>

NextLock ==
    \E t \in Lockers :
        \/ LockCall(t)
        \/ LockAcquire(t)
        \/ LockBody(t)

SpecLock == InitLock /\ [][NextLock]_vars

----------------------------------------------------------------------------
(* Properties *)

\* what the calls recorded in last were
ExitSucceeded(l)  == l.op = "exit_trade" /\ l.result # EmptySummary
EnterSucceeded(l) == l.op = "enter_trade" /\ l.result = TRUE
LevelsSet         == support_level # None /\ resistance_level # None

\* the window of the detector holds a swing low below a swing high
HasValidSwings(data, lookback) ==
    /\ Len(data) >= lookback + 2
    /\ LET w == RecentData(data, lookback)
       IN  \E i \in 2 .. (Len(w) - 1), j \in 2 .. (Len(w) - 1) :
              /\ w[i].low < w[i - 1].low /\ w[i].low < w[i + 1].low
              /\ w[j].high > w[j - 1].high /\ w[j].high > w[j + 1].high
              /\ w[i].low < w[j].high

\* C1 (SpecEnter): of the concurrent enter_trade calls on an instance with no
\* active trade, at most one has returned True at any time and exactly one once
\* all have returned; the trade recorded is the one that call wrote, whatever the
\* calls that returned False did, and no call returns False before one has won.
Winners == {t \in Threads : ret[t] = Some(TRUE)}
Losers  == {t \in Threads : ret[t] = Some(FALSE)}

C1_SinglePosition ==
    /\ Cardinality(Winners) <= 1
    /\ (\A t \in Threads : pc[t] = "done") => Cardinality(Winners) = 1
    /\ Winners = {} => (active_trade = InactiveTrade /\ Losers = {})
    /\ \A t \in Winners :
          LET a == Val(call[t])
          IN  active_trade = NewTrade(a.direction, a.entry_price, a.quantity,
                                      a.order_id, a.now)

C1_Witness ==
    /\ \A t \in Threads : pc[t] = "done"
    /\ Cardinality(Winners) = 1
    /\ Cardinality(Losers) = NumThreads - 1
    /\ \E w \in Winners, l \in Losers : Val(call[w]).direction # Val(call[l]).direction

\* C2 (SpecBuf): the buffer never holds more than max_data_points points, and it
\* is the points ingested since construction or reset, in arrival order, cut to
\* the last max_data_points of them once more than that many have arrived.
C2_BufferKeepsLastN ==
    /\ Len(price_data) <= max_data_points
    /\ price_data =
          IF Len(ingested) > max_data_points
          THEN [n \in 1 .. max_data_points |->
                    ingested[Len(ingested) - max_data_points + n]]
          ELSE ingested

C2_Witness ==
    /\ Len(ingested) = max_data_points + 3
    /\ Len(price_data) = max_data_points
    /\ price_data[1].timestamp = 4
    /\ price_data[max_data_points].timestamp = max_data_points + 3

\* C3 (Spec): in every reachable state, if support and resistance are both set
\* then support < resistance.
C3_LevelsOrdered ==
    LevelsSet => Val(support_level) < Val(resistance_level)

\* levels are stored, and update_levels has just turned down a detection with
\* support >= resistance
C3_Witness ==
    /\ last.op = "update_levels"
    /\ last.result = FALSE
    /\ ~levels_locked
    /\ LevelsSet
    /\ LET d == detect_support_resistance(price_data, lookback_period)
       IN  d[1] # None /\ d[2] # None /\ Val(d[1]) >= Val(d[2])

\* C4 as stated (Spec): a successful enter_trade sets the lock, the lock is
\* cleared only by a successful exit_trade, and update_levels called while locked
\* returns False.
C4_LockedUntilExit ==
    [][ /\ EnterSucceeded(last') => levels_locked'
        /\ (levels_locked /\ ~levels_locked') => ExitSucceeded(last')
        /\ (levels_locked /\ last'.op = "update_levels") => last'.result = FALSE
      ]_vars

\* C4 as amended (Spec): a successful enter_trade sets the lock, the lock is
\* cleared only by a successful exit_trade or by reset_strategy, and update_levels
\* called while locked returns False.
C4_LockedUntilExitOrReset ==
    [][ /\ EnterSucceeded(last') => levels_locked'
        /\ (levels_locked /\ ~levels_locked') =>
              (ExitSucceeded(last') \/ last'.op = "reset_strategy")
        /\ (levels_locked /\ last'.op = "update_levels") => last'.result = FALSE
      ]_vars

\* locked, and update_levels has just returned False on a buffer whose detection
\* it would have stored had the levels been unlocked
C4_Witness ==
    /\ levels_locked
    /\ last.op = "update_levels"
    /\ last.result = FALSE
    /\ LET d == detect_support_resistance(price_data, lookback_period)
       IN  LevelsAccepted(d[1], d[2])

\* C5 (Spec): a successful exit_trade leaves the trade inactive, the lock clear
\* and both levels absent; while a level is absent check_breakout_signal returns
\* None; the levels become present only by an update_levels call that returns
\* True; and update_levels on unlocked levels and a window holding a swing low
\* below a swing high returns True and sets both levels.
C5_ExitClearsLevels ==
    [][ /\ ExitSucceeded(last') =>
              /\ ~active_trade'.is_active
              /\ ~levels_locked'
              /\ support_level' = None
              /\ resistance_level' = None
        /\ (~LevelsSet /\ last'.op = "check_breakout_signal") => last'.result = None
        /\ (~LevelsSet /\ LevelsSet') =>
              (last'.op = "update_levels" /\ last'.result = TRUE)
        /\ ( /\ ~levels_locked
             /\ last'.op = "update_levels"
             /\ HasValidSwings(price_data, lookback_period) ) =>
              (last'.result = TRUE /\ LevelsSet')
      ]_vars

\* a trade has just been exited on a buffer from which update_levels can set
\* levels anew
C5_Witness ==
    /\ ExitSucceeded(last)
    /\ ~active_trade.is_active
    /\ ~levels_locked
    /\ ~LevelsSet
    /\ HasValidSwings(price_data, lookback_period)

\* the price move in the trade's favour, as the summary records the trade
SummaryMove(s) ==
    IF s.direction = "long" THEN s.exit_price - s.entry_price
    ELSE s.entry_price - s.exit_price

Abs(x) == IF x < 0 THEN -x ELSE x

SummaryExamples(s) ==
    /\ ( /\ s.direction = "long" /\ s.entry_price = 100 /\ s.quantity = 10
         /\ s.exit_price = 103 ) => (s.pnl = 3000 /\ s.pnl_percent = 300)
    /\ ( /\ s.direction = "short" /\ s.entry_price = 100 /\ s.quantity = 10
         /\ s.exit_price = 97 ) => (s.pnl = 3000 /\ s.pnl_percent = 300)

\* C6 as stated (SpecTrade): the summary has pnl = move * quantity and
\* pnl_percent = move / entry_price * 100, exactly, where move is exit_price -
\* entry_price for long and entry_price - exit_price for short (pnl and
\* pnl_percent are in hundredths).
C6_PnlExact ==
    ExitSucceeded(last) =>
        LET s == Val(last.result)
        IN  /\ s.pnl = SummaryMove(s) * s.quantity * 100
            /\ s.pnl_percent * s.entry_price = SummaryMove(s) * 100 * 100
            /\ SummaryExamples(s)

\* C6 as amended (SpecTrade): the summary has pnl = move * quantity and
\* pnl_percent = move / entry_price * 100, each rounded to two decimals: the
\* recorded pnl_percent is within half a hundredth of the exact quotient.
C6_PnlRounded ==
    ExitSucceeded(last) =>
        LET s == Val(last.result)
        IN  /\ s.pnl = SummaryMove(s) * s.quantity * 100
            /\ 2 * Abs(s.pnl_percent * s.entry_price - SummaryMove(s) * 100 * 100)
                  <= Abs(s.entry_price)
            /\ SummaryExamples(s)

\* a short trade entered at 3 and exited at 4: -33.33 percent, not -100/3
C6_Witness ==
    /\ ExitSucceeded(last)
    /\ LET s == Val(last.result)
       IN  /\ s.direction = "short" /\ s.entry_price = 3 /\ s.exit_price = 4
           /\ s.quantity = 10
           /\ s.pnl = -1000
           /\ s.pnl_percent = -3333

\* C7 (SpecTrade): on an active long trade check_exit_conditions returns profit
\* iff price >= target, loss iff price <= stop and price < target, None otherwise;
\* on an active short trade profit iff price <= target, loss iff price >= stop and
\* price > target, None otherwise.  With target 103 and stop 99 on a long trade:
\* profit at 103, loss at 99, None at 101.
C7_CheckExit ==
    (last.op = "check_exit_conditions" /\ active_trade.is_active) =>
        LET p      == Val(last.arg) * Percent
            target == Val(active_trade.target_price)
            stop   == Val(active_trade.stop_price)
            long   == active_trade.direction = Some("long")
            hit    == IF long THEN p >= target ELSE p <= target
            lost   == IF long THEN p <= stop /\ p < target ELSE p >= stop /\ p > target
        IN  /\ last.result = Some("profit") <=> hit
            /\ last.result = Some("loss") <=> lost
            /\ last.result = None <=> (~hit /\ ~lost)
            /\ (long /\ target = 10300 /\ stop = 9900) =>
                  /\ Val(last.arg) = 103 => last.result = Some("profit")
                  /\ Val(last.arg) = 99 => last.result = Some("loss")
                  /\ Val(last.arg) = 101 => last.result = None

\* a long trade with target 103 and stop 99, checked at 99
C7_Witness ==
    /\ last.op = "check_exit_conditions"
    /\ active_trade.is_active
    /\ active_trade.direction = Some("long")
    /\ active_trade.target_price = Some(10300)
    /\ active_trade.stop_price = Some(9900)
    /\ last.arg = Some(99)
    /\ last.result = Some("loss")

\* C8 (SpecScenario): on a fresh instance with lookback 10, update_levels on 12
\* points whose interior swing highs have maximum 2515 and whose interior swing
\* lows have minimum 2480 returns True and stores support 2480 and resistance
\* 2515; no other levels are ever stored; and with these levels and no active
\* trade check_breakout_signal returns long above 2515, short below 2480 and
\* None from 2480 to 2515.
C8_Scenario ==
    /\ (last.op = "update_levels" /\ Len(price_data) = ScenarioLen) =>
          /\ last.result = TRUE
          /\ support_level = Some(ScenarioS)
          /\ resistance_level = Some(ScenarioR)
    /\ (support_level # None \/ resistance_level # None) =>
          (support_level = Some(ScenarioS) /\ resistance_level = Some(ScenarioR))
    /\ (last.op = "check_breakout_signal" /\ LevelsSet) =>
          last.result = IF Val(last.arg) > ScenarioR THEN Some("long")
                        ELSE IF Val(last.arg) < ScenarioS THEN Some("short")
                        ELSE None

\* the levels are 2480 and 2515, a lesser swing high is in the window, and 2520
\* has just been signalled long
C8_Witness ==
    /\ last.op = "check_breakout_signal"
    /\ last.arg = Some(2520)
    /\ last.result = Some("long")
    /\ support_level = Some(ScenarioS)
    /\ resistance_level = Some(ScenarioR)
    /\ Len(price_data) = ScenarioLen
    /\ price_data[4].high = 2510
    /\ price_data[7].high = ScenarioR

\* C9 (SpecTrade): check_exit_conditions and check_breakout_signal never raise;
\* check_exit_conditions returns None when no trade is active, and
\* check_breakout_signal returns None when support or resistance is absent.
C9_NeverRaise ==
    /\ last.op \in {"check_exit_conditions", "check_breakout_signal"} => ~last.raised
    /\ (last.op = "check_exit_conditions" /\ ~active_trade.is_active) =>
          last.result = None
    /\ (last.op = "check_breakout_signal" /\ ~LevelsSet) => last.result = None

\* no trade, no levels, and a breakout check above any level has returned None
C9_Witness ==
    /\ last.op = "check_breakout_signal"
    /\ last.arg = Some(103)
    /\ ~active_trade.is_active
    /\ ~LevelsSet
    /\ last.result = None
    /\ ~last.raised

\* C10 (SpecTrade): enter_trade called while a trade is active returns False and
\* changes neither the trade, the lock flag, the levels, the buffer nor the
\* parameters.
C10_EnterWhileActive ==
    [][ (active_trade.is_active /\ last'.op = "enter_trade") =>
            (last'.result = FALSE /\ UNCHANGED <<svars, params>>)
      ]_vars

\* enter_trade has just returned False on an instance with a trade, levels and
\* buffered points
C10_Witness ==
    /\ last.op = "enter_trade"
    /\ last.result = FALSE
    /\ active_trade.is_active
    /\ levels_locked
    /\ LevelsSet
    /\ Len(price_data) > 0

\* C11 (Spec): exit_trade called while no trade is active returns the empty
\* summary, does not raise, and changes neither the trade, the lock flag, the
\* levels, the buffer nor the parameters.
C11_ExitWhileInactive ==
    [][ (~active_trade.is_active /\ last'.op = "exit_trade") =>
            /\ last'.result = EmptySummary
            /\ ~last'.raised
            /\ UNCHANGED <<svars, params>>
      ]_vars

\* exit_trade has just returned the empty summary on an instance with levels and
\* buffered points, which it left in place
C11_Witness ==
    /\ last.op = "exit_trade"
    /\ last.result = EmptySummary
    /\ ~last.raised
    /\ ~active_trade.is_active
    /\ ~levels_locked
    /\ LevelsSet
    /\ Len(price_data) > 0

\* A step that takes the trade from inactive to active by a successful enter_trade
TradeCreated ==
    /\ ~active_trade.is_active
    /\ active_trade'.is_active
    /\ EnterSucceeded(last')

\* A step that takes the trade from active to the inactive record by a
\* successful exit_trade
TradeDestroyed ==
    /\ active_trade.is_active
    /\ active_trade' = InactiveTrade
    /\ ExitSucceeded(last')

\* The same transition made by reset_strategy, without any exit
TradeForceCleared ==
    /\ active_trade.is_active
    /\ active_trade' = InactiveTrade
    /\ last'.op = "reset_strategy"

\* C20 as stated (Spec): the trade record changes only by a successful enter
\* (inactive to active) or by a successful exit (active to inactive).
C20_LifecycleExitOnly ==
    [][ active_trade' # active_trade => (TradeCreated \/ TradeDestroyed) ]_vars

\* C20 amended (Spec): the trade record changes only by a successful enter
\* (inactive to active), by a successful exit or by reset (active to inactive);
\* ingest, refresh_levels, detect_breakout, check_exit, status and failed
\* enter/exit calls change none of its fields.
C20_Lifecycle ==
    [][ active_trade' # active_trade =>
            (TradeCreated \/ TradeDestroyed \/ TradeForceCleared) ]_vars

\* a trade is active after a call that is neither enter nor exit nor reset, made
\* on an instance that holds buffered points
C20_Witness ==
    /\ active_trade.is_active
    /\ last.op = "check_exit_conditions"
    /\ last.result # None
    /\ Len(price_data) > 0

\* C12 (SpecWebhook): every request handed to place_order carries buy or sell as
\* its action (in any letter case, which place_order lowers).
C12_OrdersBuyOrSell ==
    \A o \in orders : Lower(o.action) \in {"buy", "sell"}

\* C13 (SpecWebhook, where the broker accepts every request that reaches it):
\* when the handling of a price observation ends and check_breakout_signal had
\* signalled, the instance holds an active trade in the signalled direction,
\* entered at the close, and the levels are locked.
C13_SignalEnters ==
    (web.pc = "done" /\ web.signal # None) =>
        /\ active_trade.is_active
        /\ active_trade.direction = web.signal
        /\ active_trade.entry_price = Some(web.close)
        /\ levels_locked

\* C14 (SpecCtl): at most one monitoring loop is running at any time.
C14_SingleLoop ==
    Cardinality({n \in DOMAIN monitors : Running(monitors[n])}) <= 1

\* C15 (SpecCtl): a loop that was running when stop_monitoring cleared the flag
\* leaves the loop at the top of its next iteration: from the top it goes
\* nowhere but to its end.
C15_StopEndsLoop ==
    [][ \A n \in DOMAIN monitors :
            (/\ monitors[n].pc = "top"
             /\ monitors[n].stop_requested
             /\ monitors'[n].pc # "top") => monitors'[n].pc = "stopped"
      ]_vars

\* the pair the loop is working on
CurrentSymbol(m) == Head(m.queue)

\* the loop has gone on with the next pair of the snapshot, or to the sleep that
\* ends the pass when there is none
WentOn(m, after) ==
    /\ after.queue = Tail(m.queue)
    /\ after.pc = IF Tail(m.queue) = <<>> THEN "sleep" ELSE "fetch"

\* the loop has taken a step of its pass
Moved(m, after) == after.pc # m.pc \/ after.queue # m.queue

\* C16 (SpecMon): once the loop has found the exit condition met and its exit
\* order was accepted, its call of exit_trade leaves the trade inactive.
C16_ExitCloses ==
    [][ \A n \in DOMAIN monitors :
            (monitors[n].pc = "exit" /\ monitors'[n].pc # "exit") =>
                ~strategy_instances'[CurrentSymbol(monitors[n])].active_trade.is_active
      ]_vars

\* C17 (SpecMon): a failed price fetch, and an exit_trade that raises, change
\* no instance, and the loop goes on with the next symbol of the snapshot (or
\* sleeps after the last one); the loop ends only at the top of an iteration
\* with the flag cleared.
C17_FailureIsLocal ==
    [][ \A n \in DOMAIN monitors :
            LET m     == monitors[n]
                after == monitors'[n]
            IN  /\ (/\ m.pc = "fetch"
                    /\ Moved(m, after)
                    /\ after.ltp_result = Some(LtpFailure))
                      => (strategy_instances' = strategy_instances /\ WentOn(m, after))
                /\ (/\ m.pc = "exit"
                    /\ Moved(m, after)
                    /\ IsActive(CurrentSymbol(m))
                    /\ DivisionRaises(strategy_instances[CurrentSymbol(m)].active_trade))
                      => (strategy_instances' = strategy_instances /\ WentOn(m, after))
                /\ (Running(m) /\ ~Running(after))
                      => (m.pc = "top" /\ ~monitoring_active)
      ]_vars

\* in a pass over both symbols the fetch for the first one has failed and the
\* loop is about to fetch for the second; both trades are still active
C17_Witness ==
    /\ monitoring_active
    /\ monitors[1].pc = "fetch"
    /\ monitors[1].queue = <<"RELIANCE">>
    /\ monitors[1].ltp_result = Some(LtpFailure)
    /\ IsActive("INFY")
    /\ IsActive("RELIANCE")

\* C18 (SpecMon): when the loop's exit order is rejected, exit_trade is not
\* called: no instance changes (trade, lock flag and levels stay as they are)
\* and the loop goes on, so the trade is evaluated again in the next pass; the
\* loop stands before exit_trade only with an accepted order.
C18_RejectedOrder ==
    [][ \A n \in DOMAIN monitors :
            LET m     == monitors[n]
                after == monitors'[n]
            IN  /\ (/\ m.pc = "order"
                    /\ Moved(m, after)
                    /\ after.order_result = Some(OrderError))
                      => (strategy_instances' = strategy_instances /\ WentOn(m, after))
                /\ after.pc = "exit" => after.order_result # Some(OrderError)
      ]_vars

\* the exit order for a trade whose stop was hit has been rejected; the loop
\* sleeps before its next pass and the trade is active and locked as before
C18_Witness ==
    /\ monitors[1].pc = "sleep"
    /\ monitors[1].exit_signal = Some("loss")
    /\ monitors[1].order_result = Some(OrderError)
    /\ IsActive("INFY")
    /\ ~IsActive("RELIANCE")
    /\ strategy_instances["INFY"].levels_locked
    /\ strategy_instances["INFY"].active_trade.entry_price = Some(100)

\* C19 (SpecReg): the callers of get_strategy for spellings of one symbol that
\* have returned all hold the same instance, and it is the one the registry
\* holds for the symbol.
C19_OneInstance ==
    \A c \in Callers, d \in Callers :
        (/\ callers[c].pc = "done"
         /\ callers[d].pc = "done"
         /\ callers[c].symbol = callers[d].symbol)
            => /\ callers[c].result = callers[d].result
               /\ callers[c].result = Some(strategy_instances[Val(callers[c].symbol)])

\* C21 (Spec): reset_strategy, called in any state, leaves the instance as
\* __init__ made it: no levels, lock flag false, the inactive trade with its
\* fields cleared, an empty buffer; lookback_period, profit_target and
\* stop_loss are unchanged.
C21_ResetToInitial ==
    [][ last'.op = "reset_strategy" =>
            /\ support_level' = None
            /\ resistance_level' = None
            /\ levels_locked' = FALSE
            /\ active_trade' = InactiveTrade
            /\ price_data' = <<>>
            /\ UNCHANGED params
      ]_vars

\* reset_strategy has just run on an instance whose lookback is not the
\* default and left it as constructed
C21_Witness ==
    /\ last.op = "reset_strategy"
    /\ lookback_period = 2
    /\ support_level = None
    /\ resistance_level = None
    /\ ~levels_locked
    /\ active_trade = InactiveTrade
    /\ price_data = <<>>

\* the reference detector: the window is the lookback + 2 newest points
RefWindow(data, lookback) ==
    [n \in 1 .. (lookback + 2) |-> data[Len(data) - (lookback + 2) + n]]

\* the lows that lie strictly below both neighbours, and the highs that lie
\* strictly above both; the first and the last point have only one neighbour
RefLows(w) ==
    {w[i].low : i \in {j \in 1 .. Len(w) :
        j > 1 /\ j < Len(w) /\ w[j].low < w[j - 1].low /\ w[j].low < w[j + 1].low}}
RefHighs(w) ==
    {w[i].high : i \in {j \in 1 .. Len(w) :
        j > 1 /\ j < Len(w) /\ w[j].high > w[j - 1].high /\ w[j].high > w[j + 1].high}}

RefLevels(data, lookback) ==
    IF Len(data) < lookback + 2 THEN <<None, None>>
    ELSE LET w == RefWindow(data, lookback)
         IN  << IF RefLows(w) = {} THEN None
                ELSE Some(CHOOSE v \in RefLows(w) : \A u \in RefLows(w) : v <= u),
                IF RefHighs(w) = {} THEN None
                ELSE Some(CHOOSE v \in RefHighs(w) : \A u \in RefHighs(w) : v >= u) >>

\* C23 (Spec): on every buffer the detector yields what the reference yields.
C23_DetectorIsReference ==
    detect_support_resistance(price_data, lookback_period) =
        RefLevels(price_data, lookback_period)

\* update_levels has run on a buffer longer than the window; an interior high
\* ties with its left neighbour and is above its right one, and no resistance
\* is found although the window's last point has the highest high
C23_Witness ==
    /\ last.op = "update_levels"
    /\ Len(price_data) > lookback_period + 2
    /\ LET w == RefWindow(price_data, lookback_period)
       IN  \E i \in 2 .. (Len(w) - 1) :
              /\ w[i].high = w[i - 1].high
              /\ w[i].high > w[i + 1].high
    /\ detect_support_resistance(price_data, lookback_period)[2] = None
    /\ LET w == RefWindow(price_data, lookback_period)
       IN  \A i \in 1 .. (Len(w) - 1) : w[Len(w)].high > w[i].high

\* C24 (Spec): update_levels returns True and overwrites the stored levels
\* exactly when the levels are unlocked and the detector yields both levels with
\* support < resistance; otherwise it returns False and the stored levels stay.
\* It never changes the buffer, the lock flag or the trade.
C24_RefreshLevels ==
    [][ last'.op = "update_levels" =>
          LET d  == detect_support_resistance(price_data, lookback_period)
              ok == /\ ~levels_locked
                    /\ d[1] # None
                    /\ d[2] # None
                    /\ Val(d[1]) < Val(d[2])
          IN  /\ last'.result = ok
              /\ ok => support_level' = d[1] /\ resistance_level' = d[2]
              /\ ~ok => UNCHANGED <<support_level, resistance_level>>
              /\ UNCHANGED <<price_data, levels_locked, active_trade>>
      ]_vars

\* update_levels has returned False while locked: the stored levels are kept
\* although the detector yields a pair with support below resistance
C24_Witness ==
    /\ last.op = "update_levels"
    /\ last.result = FALSE
    /\ levels_locked
    /\ active_trade.is_active
    /\ LevelsSet
    /\ LET d == detect_support_resistance(price_data, lookback_period)
       IN  /\ d[1] # None
           /\ d[2] # None
           /\ Val(d[1]) < Val(d[2])

\* the signal of a price against two levels, the upper level looked at first
LongBeforeShort(support, resistance, current_price) ==
    IF current_price > resistance THEN Some("long")
    ELSE IF current_price < support THEN Some("short")
    ELSE None

\* C25 (Spec): while a trade is active check_breakout_signal returns None for
\* every price, also above resistance and below support; with no trade and both
\* levels set the price is compared with resistance before support, so that a
\* price on the breakout side of both levels signals long.
C25_BreakoutGuarded ==
    /\ (last.op = "check_breakout_signal" /\ active_trade.is_active) =>
          last.result = None
    /\ (last.op = "check_breakout_signal" /\ ~active_trade.is_active /\ LevelsSet) =>
          last.result = LongBeforeShort(Val(support_level), Val(resistance_level),
                                        Val(last.arg))
    /\ \A support \in Prices, resistance \in Prices, current_price \in Prices :
          BreakoutSignal(InactiveTrade, Some(support), Some(resistance), current_price)
              = LongBeforeShort(support, resistance, current_price)

\* a trade is active, the levels are set, and a check at a price above
\* resistance has returned None
C25_Witness ==
    /\ last.op = "check_breakout_signal"
    /\ active_trade.is_active
    /\ LevelsSet
    /\ Val(last.arg) > Val(resistance_level)
    /\ last.result = None

\* C29 as stated (SpecTrade): exit_trade called on an active trade, whatever
\* its entry price and quantity and whatever the exit price, returns a non-empty
\* summary without raising and leaves the trade inactive, the lock clear and
\* both levels absent.
C29_ExitNeverFails ==
    [][ (active_trade.is_active /\ last'.op = "exit_trade") =>
            /\ ~last'.raised
            /\ last'.result # EmptySummary
            /\ ~active_trade'.is_active
            /\ ~levels_locked'
            /\ support_level' = None
            /\ resistance_level' = None
      ]_vars

\* C30 (Spec): add_price_data never raises and changes only the buffer: the
\* given point becomes its newest element behind the points already held, and
\* the levels, the lock flag and the trade are left alone, with or without an
\* active trade.
C30_IngestAppends ==
    [][ last'.op = "add_price_data" =>
          LET given == ingested'[Len(ingested')]
          IN  /\ ~last'.raised
              /\ price_data'[Len(price_data')] = given
              /\ Len(price_data) < max_data_points =>
                    price_data' = price_data \o <<given>>
              /\ UNCHANGED <<support_level, resistance_level, levels_locked,
                             active_trade, params>>
      ]_vars

\* a point has been added behind a different one while a trade is active and
\* the levels are locked: the buffer has grown, the levels have stayed
C30_Witness ==
    /\ last.op = "add_price_data"
    /\ active_trade.is_active
    /\ levels_locked
    /\ LevelsSet
    /\ Len(price_data) = MaxLen
    /\ price_data[Len(price_data)] # price_data[Len(price_data) - 1]

\* C26 (SpecEnter): an enter_trade call that succeeds records the direction,
\* entry price, quantity and order id it was given, sets the lock, and stores
\* target = entry_price * (1 + profit_target), stop = entry_price * (1 - stop_loss)
\* for long and target = entry_price * (1 - profit_target),
\* stop = entry_price * (1 + stop_loss) for short (here in hundredths); it leaves
\* the levels and the buffer alone.
C26_EnterRecords ==
    [][ \A t \in Threads :
          (pc[t] = "write" /\ pc'[t] = "done") =>
            LET given == Val(call[t])
                e     == given.entry_price
            IN  /\ ret'[t] = Some(TRUE)
                /\ active_trade'.is_active
                /\ active_trade'.direction = Some(given.direction)
                /\ active_trade'.entry_price = Some(e)
                /\ active_trade'.quantity = given.quantity
                /\ active_trade'.order_id = given.order_id
                /\ levels_locked'
                /\ given.direction = "long" =>
                      /\ active_trade'.target_price = Some(e * (Percent + profit_target))
                      /\ active_trade'.stop_price = Some(e * (Percent - stop_loss))
                /\ given.direction = "short" =>
                      /\ active_trade'.target_price = Some(e * (Percent - profit_target))
                      /\ active_trade'.stop_price = Some(e * (Percent + stop_loss))
                /\ UNCHANGED <<support_level, resistance_level, price_data>>
      ]_vars

\* the second thread's short entry at 100 with 10 shares has succeeded: target
\* 97.00, stop 101.00, while another thread's call was turned down
C26_Witness ==
    /\ ret[2] = Some(TRUE)
    /\ \E t \in Threads : ret[t] = Some(FALSE)
    /\ levels_locked
    /\ active_trade.direction = Some("short")
    /\ active_trade.entry_price = Some(100)
    /\ active_trade.quantity = 10
    /\ active_trade.order_id = Some(2)
    /\ active_trade.target_price = Some(9700)
    /\ active_trade.stop_price = Some(10100)

\* C22 as stated (SpecEnter): no trade is active with a quantity that is not
\* positive, whatever quantity enter_trade is called with.
C22_PositiveQuantity ==
    active_trade.is_active => active_trade.quantity > 0

\* C28 as stated (SpecMon): the order the loop requests is opposite to the
\* direction of the trade its check_exit_conditions call evaluated (sell for
\* long, buy for short) and has that trade's quantity, which is positive,
\* whatever enter_trade and reset calls come in between.
C28_OppositeOrder ==
    [][ \A n \in DOMAIN monitors :
            LET m     == monitors[n]
                after == monitors'[n]
            IN  (m.pc = "order" /\ Moved(m, after)) =>
                  LET trade   == Val(m.evaluated)
                      request == Val(after.order_request)
                  IN  /\ request.action =
                            (IF trade.direction = Some("long") THEN "sell" ELSE "buy")
                      /\ request.quantity = trade.quantity
                      /\ request.quantity > 0
      ]_vars

\* the price the loop fetched for the symbol it is working on
FetchedPrice(m) == Val(Val(m.ltp_result).ltp)

\* C27 as stated (SpecMon): the loop stands before exit_trade only after, in
\* this pass and for this symbol, the price fetch succeeded,
\* check_exit_conditions returned profit or loss on the fetched price and the
\* exit order was accepted; a summary that exit_trade returns to the loop holds
\* the fetched price, that reason and the order id place_order returned; and the
\* loop closes no trade for which the fetched price lies strictly between stop
\* and target.
C27_ExitAfterChecks ==
    [][ \A n \in DOMAIN monitors :
            LET m      == monitors[n]
                after  == monitors'[n]
                symbol == CurrentSymbol(m)
            IN  /\ (m.pc = "order" /\ after.pc = "exit") =>
                      /\ after.ltp_result # None
                      /\ Val(after.ltp_result).status = "success"
                      /\ after.exit_signal \in {Some("profit"), Some("loss")}
                      /\ after.exit_signal =
                            ExitSignal(Val(after.evaluated), FetchedPrice(after))
                      /\ Val(after.order_result).status = "success"
                /\ (after.pc = "exit") => (m.pc \in {"order", "exit"})
                /\ (/\ m.pc = "exit"
                    /\ Moved(m, after)
                    /\ after.trade_summary # None
                    /\ after.trade_summary # Some(EmptySummary)) =>
                      LET trade_summary == Val(after.trade_summary)
                      IN  /\ trade_summary.exit_price = FetchedPrice(m)
                          /\ trade_summary.exit_reason = Val(m.exit_signal)
                          /\ trade_summary.exit_order_id = Val(m.order_result).order_id
                /\ (/\ m.pc = "exit"
                    /\ Moved(m, after)
                    /\ IsActive(symbol)
                    /\ ~strategy_instances'[symbol].active_trade.is_active) =>
                      ExitSignal(strategy_instances[symbol].active_trade,
                                 FetchedPrice(m)) # None
      ]_vars

\* the symbols of a snapshot
Symbols(queue) == {queue[i] : i \in DOMAIN queue}

\* C31 (SpecMon): a pass that finds no active trade goes to sleep without a
\* price fetch, an order or a change of any instance, and wakes up to scan
\* again; a pass works only on symbols whose trade was active when it took its
\* snapshot: the fetch and the order are for the head of what is left of it.
C31_IdlePass ==
    [][ \A n \in DOMAIN monitors :
            LET m     == monitors[n]
                after == monitors'[n]
            IN  /\ (m.pc = "top" /\ Moved(m, after) /\ monitoring_active
                        /\ \A symbol \in MonSymbols : ~IsActive(symbol)) =>
                      /\ after.pc = "sleep"
                      /\ after = [m EXCEPT !.pc = "sleep"]
                      /\ strategy_instances' = strategy_instances
                /\ (m.pc = "top" /\ after.pc = "fetch") =>
                      /\ Symbols(after.queue) = {symbol \in MonSymbols : IsActive(symbol)}
                      /\ strategy_instances' = strategy_instances
                /\ (m.pc = "sleep" /\ Moved(m, after)) =>
                      /\ after.pc = "top"
                      /\ after.ltp_result = m.ltp_result
                      /\ after.order_result = m.order_result
                      /\ strategy_instances' = strategy_instances
                /\ (m.pc \in {"fetch", "order", "exit"} /\ Moved(m, after)) =>
                      /\ m.queue # <<>>
                      /\ after.queue \in {m.queue, Tail(m.queue)}
                /\ (m.pc = "order" /\ Moved(m, after)) =>
                      Val(after.order_request).symbol = CurrentSymbol(m)
      ]_vars

\* the loop found no active trade and sleeps, having fetched no price and
\* placed no order; a trade entered since then waits for the next scan
C31_Witness ==
    /\ monitoring_active
    /\ monitors[1].pc = "sleep"
    /\ monitors[1].queue = <<>>
    /\ monitors[1].ltp_result = None
    /\ monitors[1].order_result = None
    /\ IsActive("INFY")

\* C32 as stated (SpecReplay): when the replay of SAMPLE_PRICE_DATA has come
\* to the breakout check of the last candle (close 2520), support and
\* resistance are set and the check returns long.
C32_ReplayBreaksOut ==
    (Len(ingested) = Len(SAMPLE_PRICE_DATA) /\ last.op = "check_breakout_signal") =>
        /\ LevelsSet
        /\ last.result = Some("long")

C34_ActiveHasLevels ==
    active_trade.is_active => LevelsSet

\* the handlers that have answered, with an accepted order and with a trade
\* entered
OrdersPlaced ==
    {t \in Handlers : /\ ret[t] # None
                      /\ Val(ret[t]).order_result # None
                      /\ Val(Val(ret[t]).order_result).status = "success"}
TradesEntered ==
    {t \in Handlers : ret[t] # None /\ Val(ret[t]).trade_entered}

Closed(trade_summary) ==
    trade_summary # None /\ trade_summary # Some(EmptySummary)

\* C36 as stated (SpecExit, every order accepted): each accepted exit order is
\* followed by an exit_trade call that succeeds, in the loop and in
\* manual_exit alike, so that there are never more accepted exit orders than
\* successful exit_trade calls.
C36_ExitOrderPerExit ==
    [][ /\ \A n \in DOMAIN monitors :
              (monitors[n].pc = "exit" /\ Moved(monitors[n], monitors'[n])) =>
                  Closed(monitors'[n].trade_summary)
        /\ (web.pc = "exit" /\ web'.pc # "exit") => Closed(web'.trade_summary)
      ]_vars

\* C37 as stated (SpecMon): the trade that the loop's exit_trade call closes is
\* the trade its check_exit_conditions call returned the reason for.
C37_ExitsEvaluatedTrade ==
    [][ \A n \in DOMAIN monitors :
            LET m     == monitors[n]
                after == monitors'[n]
            IN  (m.pc = "exit" /\ Moved(m, after) /\ Closed(after.trade_summary)) =>
                    strategy_instances[CurrentSymbol(m)].active_trade = Val(m.evaluated)
      ]_vars

\* the two tests of check_exit_conditions on a trade, prices in hundredths
TargetReached(trade, price) ==
    IF trade.direction = Some("long")
    THEN price * Percent >= Val(trade.target_price)
    ELSE price * Percent <= Val(trade.target_price)
StopReached(trade, price) ==
    IF trade.direction = Some("long")
    THEN price * Percent <= Val(trade.stop_price)
    ELSE price * Percent >= Val(trade.stop_price)

====
